---- MODULE Spec2Model ----
(***************************************************************************)
(* Model of sentry/monitors/consumers/monitor_consumer.py: the clock-tick  *)
(* deduplication of _try_monitor_tasks_trigger and the check-in            *)
(* reconciliation of _process_message.                                     *)
(***************************************************************************)
EXTENDS Integers, Sequences, FiniteSets, TLC

(***************************************************************************)
(* Part 1. Tick deduplication (_try_monitor_tasks_trigger).                *)
(***************************************************************************)

\* Number of consumer instances racing on the tick register.
NumInstances == 3
\* Message timestamps are 0, 30, ..., 30 * MaxTsStep seconds.
MaxTsStep == 4
\* Total number of trigger attempts started in one behaviour of SpecTick.
MaxAttempts == 3

\* The value redis GET / GETSET return for a key that is not set (None).
NoneTs == -1

Instances == 1..NumInstances
TsValues == {30 * k : k \in 0..MaxTsStep}

VARIABLES
    register,          \* value under MONITOR_TASKS_LAST_TRIGGERED_KEY
    tpc,               \* per instance: "idle", "get", "getset"
    ts,                \* per instance: the message timestamp (seconds)
    precheck_last_ts,  \* per instance: result of the pre-check GET
    last_ts,           \* per instance: result of the GETSET
    tick_result,       \* per instance: how the last attempt returned
    dispatched,        \* per reference minute: number of _dispatch_tasks calls
    skipped_warnings,  \* number of "minute skipped" messages captured
    attempts           \* number of attempts started so far

tickVars == <<register, tpc, ts, precheck_last_ts, last_ts, tick_result,
              dispatched, skipped_warnings, attempts>>

\* reference_ts: ts.replace(second=0, microsecond=0) as integer seconds.
reference_ts(t) == t - (t % 60)

Minutes == {reference_ts(t) : t \in TsValues}

\* The pre-check of line 202: the tick was already handled.
AlreadyHandledStrict(pre, ref) == pre # NoneTs /\ pre > ref
AlreadyHandled(pre, ref) == pre # NoneTs /\ pre >= ref

\* The comparison of line 214: another consumer took the tick.
LostRaceNever(pre, last) == FALSE
LostRace(pre, last) == pre # last

\* The check of line 229: more than one minute since the previous tick.
MinuteSkipped(last, ref) == last # NoneTs /\ ref > last + 60

TickInitLocals ==
    /\ tpc = [i \in Instances |-> "idle"]
    /\ ts = [i \in Instances |-> 0]
    /\ precheck_last_ts = [i \in Instances |-> NoneTs]
    /\ last_ts = [i \in Instances |-> NoneTs]
    /\ tick_result = [i \in Instances |-> "none"]
    /\ dispatched = [m \in Minutes |-> 0]
    /\ skipped_warnings = 0

\* A consumer instance receives a message with timestamp t and enters
\* _try_monitor_tasks_trigger.
TickStart(i, t) ==
    /\ tpc[i] = "idle"
    /\ attempts < MaxAttempts
    /\ attempts' = attempts + 1
    /\ tpc' = [tpc EXCEPT ![i] = "get"]
    /\ ts' = [ts EXCEPT ![i] = t]
    /\ precheck_last_ts' = [precheck_last_ts EXCEPT ![i] = NoneTs]
    /\ last_ts' = [last_ts EXCEPT ![i] = NoneTs]
    /\ tick_result' = [tick_result EXCEPT ![i] = "none"]
    /\ UNCHANGED <<register, dispatched, skipped_warnings>>

\* redis GET and the pre-check (lines 193-203).
TickGet(i) ==
    /\ tpc[i] = "get"
    /\ precheck_last_ts' = [precheck_last_ts EXCEPT ![i] = register]
    /\ IF AlreadyHandled(register, reference_ts(ts[i]))
       THEN /\ tpc' = [tpc EXCEPT ![i] = "idle"]
            /\ tick_result' = [tick_result EXCEPT ![i] = "already_handled"]
       ELSE /\ tpc' = [tpc EXCEPT ![i] = "getset"]
            /\ UNCHANGED tick_result
    /\ UNCHANGED <<register, ts, last_ts, dispatched, skipped_warnings, attempts>>

\* redis GETSET, the comparison, the skipped-minute report and
\* _dispatch_tasks (lines 207-235).
TickGetSet(i) ==
    /\ tpc[i] = "getset"
    /\ last_ts' = [last_ts EXCEPT ![i] = register]
    /\ register' = reference_ts(ts[i])
    /\ tpc' = [tpc EXCEPT ![i] = "idle"]
    /\ IF LostRace(precheck_last_ts[i], register)
       THEN /\ tick_result' = [tick_result EXCEPT ![i] = "lost_race"]
            /\ UNCHANGED <<dispatched, skipped_warnings>>
       ELSE /\ tick_result' = [tick_result EXCEPT ![i] = "dispatched"]
            /\ dispatched' = [dispatched EXCEPT ![reference_ts(ts[i])] = @ + 1]
            /\ skipped_warnings' =
                   IF MinuteSkipped(register, reference_ts(ts[i]))
                   THEN skipped_warnings + 1 ELSE skipped_warnings
    /\ UNCHANGED <<ts, precheck_last_ts, attempts>>

\* _try_monitor_tasks_trigger raises: the register store is unavailable at
\* the GET (line 193) or at the GETSET (line 207), or _dispatch_tasks fails
\* after the GETSET has written the register (line 235).
TickRaises(i) ==
    /\ tpc[i] \in {"get", "getset"}
    /\ tpc' = [tpc EXCEPT ![i] = "idle"]
    /\ tick_result' = [tick_result EXCEPT ![i] = "raised"]
    /\ \E dispatch_failed \in BOOLEAN :
          register' = IF tpc[i] = "getset" /\ dispatch_failed
                      THEN reference_ts(ts[i]) ELSE register
    /\ UNCHANGED <<ts, precheck_last_ts, last_ts, dispatched,
                   skipped_warnings, attempts>>


(***************************************************************************)
(* Part 2. The list of findings (sentry/backup/findings.py,                *)
(* ComparatorFindings).                                                    *)
(***************************************************************************)

\* The greatest number of findings the list holds in one behaviour.
MaxFindings == 5
\* The greatest length of the list passed to one call of extend.
MaxExtend == 2

\* The findings that are told apart.
FindingKinds == {"f1", "f2"}

VARIABLES
    findings,          \* self.findings
    initial_findings,  \* the list the object was constructed with
    added_findings     \* every finding passed to append or extend, in call order

findingsVars == <<findings, initial_findings, added_findings>>

\* The lists of findings of the lengths 0..n.
FindingLists(n) == UNION {[1..k -> FindingKinds] : k \in 0..n}

\* ComparatorFindings.append (lines 92-93): list.append.
append(fs, finding) == Append(fs, finding)

\* ComparatorFindings.extend (lines 98-99): self.findings += findings.
extend_prepends(fs, more) == more \o fs
extend(fs, more) == fs \o more

\* ComparatorFindings.empty (lines 95-96): not self.findings.
empty(fs) == Len(fs) = 0

\* ComparatorFindings.__init__ (lines 89-90) with the list fs.
ComparatorFindingsInit(fs) ==
    /\ findings = fs
    /\ initial_findings = fs
    /\ added_findings = <<>>

\* A call of append.
AppendFinding(f) ==
    /\ Len(findings) + 1 <= MaxFindings
    /\ findings' = append(findings, f)
    /\ added_findings' = Append(added_findings, f)
    /\ UNCHANGED initial_findings

\* A call of extend.
ExtendFindings(more) ==
    /\ Len(findings) + Len(more) <= MaxFindings
    /\ findings' = extend(findings, more)
    /\ added_findings' = added_findings \o more
    /\ UNCHANGED initial_findings
(***************************************************************************)
(* Part 3. Check-in reconciliation (_process_message).                     *)
(***************************************************************************)

\* Number of consumer instances processing check-in messages.
NumWorkers == 2
\* Total number of check-in messages delivered in one behaviour.
MaxDeliveries == 3
\* Event start times are 0..MaxTime (milliseconds).
MaxTime == 1
\* Number of values uuid4() can still return.
NumFreshGuids == 2
MaxRateDeliveries == 7

Workers == 1..NumWorkers
Times == 0..MaxTime

\* None for a time, a duration or an id.
NoneVal == -1000

\* uuid.UUID(int=0), client-chosen GUIDs, a string uuid.UUID() rejects and
\* the values uuid4() returns.
\* GUIDs are written as their integer value: uuid.UUID(int=0) is 0.
ZeroGuid == 0
ClientGuids == {1, 2}
FreshGuids == {10 + n : n \in 1..NumFreshGuids}
AllGuids == ClientGuids \cup FreshGuids
\* A check_in_id that uuid.UUID() rejects with ValueError.
BadGuid == -1

\* CHECKIN_QUOTA_LIMIT: check-ins accepted per key and window.
CHECKIN_QUOTA_LIMIT == 5

Projects == {1, 2}
\* project.organization_id: both projects belong to organization 1.
organization_id(project) == 1

\* Monitor slugs after slugify, and the environment names of the messages.
Slugs == {"my-job", "new-job"}
\* An environment name longer than ensure_environment accepts.
LongEnvironmentName == "an-environment-name-that-is-too-long"
EnvironmentNames == {"prod", "dev", "staging", LongEnvironmentName}
\* The number of environments ensure_environment allows for one monitor.
MaxEnvironmentsPerMonitor == 2

IN_PROGRESS == "in_progress"
OK == "ok"
ERROR == "error"
\* CheckInStatus.FINISHED_VALUES
FINISHED_VALUES == {"ok", "error", "missed", "timeout"}

\* slugify(params["monitor_slug"])[:MAX_SLUG_LENGTH].strip("-")
slugify(raw) ==
    CASE raw = "My Job" -> "my-job"
      [] OTHER -> raw

\* ConfigValidator: is_valid() and validated_data.
ConfigIsValid(config) == config \in {"c1", "c2"}
validated_data(config) == config

\* max_runtime of a validated monitor config.
max_runtime(config) == IF config = "c2" THEN 2 ELSE 1
\* the schedule interval of a monitor config
ScheduleInterval(config) == 1
\* the ceiling of valid_duration
DurationCeiling == 3

VARIABLES
    monitors,     \* Monitor rows
    envs,         \* MonitorEnvironment rows
    checkins,     \* MonitorCheckIn rows
    occurrences,  \* failure occurrences recorded by mark_failed
    signals,      \* calls of the first-monitor / first-check-in signals
    lock,         \* lock name (guid) -> holding worker, 0 when free
    rowlock,      \* guid of a check-in row -> worker holding it FOR UPDATE
    delivered,    \* number of messages delivered so far
    pc,           \* per worker: position in _process_message
    msg,          \* per worker: the message being processed
    guid,         \* per worker: guid (the check_in_id, or the uuid4 value)
    monitor_id,   \* per worker: id of the resolved monitor
    env_id,       \* per worker: id of the resolved monitor environment
    check_in,     \* per worker: the check-in object read from the database
    txn,          \* per worker: rows written by the open transaction
    outcomes,     \* per worker: counters incremented for the message
    hook,         \* per worker: hook invoked for the message
    lease_lost,   \* per worker: the lock lease expired while it was held
    finished_by,  \* per guid: the message that made its check-in terminal
    ratelimit_hits, \* per rate-limit key: calls of is_limited in the window
    committed,    \* number of messages whose offset CommitOffsets committed
    exception,    \* per worker: where its latest message raised an exception
    monitor_write, \* per worker: how _ensure_monitor_with_config wrote
    killswitch,   \* organizations crons.organization.disable-check-in matches
    message_type  \* per worker: wrapper["message_type"] of its message

ciVars == <<monitors, envs, checkins, occurrences, signals, lock, rowlock,
            delivered, pc, msg, guid, monitor_id, env_id, check_in, txn,
            outcomes, hook, lease_lost, finished_by, ratelimit_hits,
            committed, exception, monitor_write, killswitch, message_type>>

NoMessage ==
    [project_id |-> 0, monitor_slug |-> "", environment |-> "",
     check_in_id |-> BadGuid, status |-> "", duration |-> NoneVal,
     start_time |-> 0, monitor_config |-> "none", trace_id |-> ""]

NoCheckIn ==
    [guid |-> BadGuid, project_id |-> 0, monitor_id |-> 0,
     monitor_environment_id |-> 0, status |-> "", duration |-> NoneVal,
     date_added |-> 0, date_updated |-> 0, timeout_at |-> NoneVal,
     expected_time |-> NoneVal, monitor_config |-> "", trace_id |-> ""]

EmptyTxn == [monitors |-> {}, envs |-> {}, old_monitors |-> {}]

MaxOf(S) == CHOOSE x \in S : \A y \in S : y <= x
NextId(rows) == IF rows = {} THEN 1 ELSE 1 + MaxOf({r.id : r \in rows})

MonitorById(ms, id) == CHOOSE m \in ms : m.id = id
EnvById(es, id) == CHOOSE e \in es : e.id = id
CheckInByGuid(cs, g) == CHOOSE c \in cs : c.guid = g

\* params["duration"]: seconds on the wire (here in half milliseconds),
\* int(duration * 1000) milliseconds in the check-in (lines 385-391).
DurationMs(d) == IF d = NoneVal THEN NoneVal ELSE d \div 2

\* valid_duration
valid_duration(d) == d = NoneVal \/ (d >= 0 /\ d <= DurationCeiling)

\* get_timeout_at(monitor_config, status, date_added)
get_timeout_at(config, status, date) ==
    IF status = IN_PROGRESS THEN date + max_runtime(config) ELSE NoneVal

\* monitor.get_next_scheduled_checkin(last_checkin)
get_next_scheduled_checkin(m, last_checkin) ==
    last_checkin + ScheduleInterval(m.config)

\* ratelimit_key (line 266) of a message.
Organizations == {organization_id(p) : p \in Projects}

\* killswitch_matches_context("crons.organization.disable-check-in",
\* {"organization_id": project.organization_id}) (lines 276-278): the
\* context is the organization of the project.
KillswitchContextIsProject(m) == m.project_id
KillswitchContext(m) == organization_id(m.project_id)
killswitch_matches_context(ks, context) == context \in ks

RateLimitKeyWithoutEnvironment(m) ==
    <<organization_id(m.project_id), slugify(m.monitor_slug), "prod">>
RateLimitKey(m) ==
    <<organization_id(m.project_id), slugify(m.monitor_slug), m.environment>>
RateLimitKeys ==
    {<<organization_id(p), s, e>> : p \in Projects, s \in Slugs,
                                    e \in EnvironmentNames}

\* ratelimits.is_limited(key, limit, window): the call is counted in the
\* current window and is limited once the count exceeds the limit.
is_limited(hits, key, limit) == hits[key] + 1 > limit

\* Monitor.objects.get(slug=..., project_id=..., organization_id=...)
\* (lines 98-120): the id of the monitor, or 0 for DoesNotExist.
GetMonitor(ms, project, slug) ==
    LET found == {m \in ms : /\ m.slug = slug
                             /\ m.project_id = project
                             /\ m.organization_id = organization_id(project)}
    IN IF found = {} THEN 0 ELSE (CHOOSE m \in found : TRUE).id

\* Monitor.objects.update_or_create(organization_id=, slug=, defaults=)
\* (lines 136-146): the monitor rows afterwards, the monitor's id and created.
UpdateOrCreate(ms, project, slug, config) ==
    LET found == {m \in ms : /\ m.slug = slug
                             /\ m.organization_id = organization_id(project)}
        new == [id |-> NextId(ms), organization_id |-> organization_id(project),
                project_id |-> project, slug |-> slug, name |-> slug,
                status |-> "active", type |-> "cron_job", config |-> config]
    IN IF found = {}
       THEN [monitors |-> ms \cup {new}, id |-> new.id, created |-> TRUE]
       ELSE LET old == CHOOSE m \in found : TRUE
                upd == [old EXCEPT !.project_id = project, !.name = slug,
                                   !.status = "active", !.type = "cron_job",
                                   !.config = config]
            IN [monitors |-> (ms \ {old}) \cup {upd}, id |-> old.id,
                created |-> FALSE]

\* The calls of signal_first_monitor_created after update_or_create (line
\* 146): one, whether or not the monitor was created.
SignalFirstMonitorNever(created) == 0
SignalFirstMonitorCreated(created) == 1

\* The monitor _ensure_monitor_with_config returns for a monitor_config that
\* fails validation (lines 126-129): the monitor of the lookups.
InvalidConfigReturnsNone(monitor) == 0
InvalidConfigResult(monitor) == monitor

\* monitor.update_config(config, validated_config)
update_config(m, validated_config) == [m EXCEPT !.config = validated_config]

\* The slug of the second lookup (lines 112-120): the slug as the message
\* carries it, for monitors stored before slugs were slugified.
DualReadSlugIgnoresParam(monitor_slug, monitor_slug_from_param) == monitor_slug
DualReadSlug(monitor_slug, monitor_slug_from_param) == monitor_slug_from_param

\* _ensure_monitor_with_config (lines 92-153): the monitor rows afterwards,
\* the id of the returned monitor (0 for None), the number of calls of
\* signal_first_monitor_created and the call that wrote the monitor.
ensure_monitor_with_config(ms, project, monitor_slug, monitor_slug_from_param, config) ==
    LET first == GetMonitor(ms, project, monitor_slug)
        monitor == IF first # 0 THEN first
                   ELSE GetMonitor(ms, project,
                            DualReadSlug(monitor_slug, monitor_slug_from_param))
    IN IF config = "none"
       THEN [monitors |-> ms, id |-> monitor, signalled |-> 0, write |-> "none"]
       ELSE IF ~ConfigIsValid(config)
       THEN [monitors |-> ms, id |-> InvalidConfigResult(monitor),
             signalled |-> 0, write |-> "none"]
       ELSE IF monitor = 0
            THEN LET r == UpdateOrCreate(ms, project, monitor_slug,
                                         validated_data(config))
                 IN [monitors |-> r.monitors, id |-> r.id,
                     signalled |-> SignalFirstMonitorCreated(r.created),
                     write |-> "update_or_create"]
            ELSE LET m == MonitorById(ms, monitor)
                 IN IF m.config # validated_data(config)
                    THEN [monitors |-> (ms \ {m}) \cup
                              {update_config(m, validated_data(config))},
                          id |-> monitor, signalled |-> 0,
                          write |-> "update_config"]
                    ELSE [monitors |-> ms, id |-> monitor, signalled |-> 0,
                          write |-> "none"]

\* MonitorEnvironment.objects.ensure_environment(project, monitor, name):
\* find or create the environment of the monitor with that name; a new
\* environment is refused when its name is too long
\* (MonitorEnvironmentValidationFailed) or the monitor has the allowed number
\* of environments (MonitorEnvironmentLimitsExceeded).
ensure_environment(es, monitor, name) ==
    LET found == {e \in es : e.monitor_id = monitor /\ e.name = name}
        new == [id |-> NextId(es), monitor_id |-> monitor, name |-> name,
                status |-> "active", last_checkin |-> NoneVal]
    IN IF found # {}
       THEN [envs |-> es, id |-> (CHOOSE e \in found : TRUE).id,
             created |-> FALSE, error |-> "none"]
       ELSE IF name = LongEnvironmentName
       THEN [envs |-> es, id |-> 0, created |-> FALSE,
             error |-> "failed_monitor_environment_name_length"]
       ELSE IF Cardinality({e \in es : e.monitor_id = monitor})
                   >= MaxEnvironmentsPerMonitor
       THEN [envs |-> es, id |-> 0, created |-> FALSE,
             error |-> "failed_monitor_environment_limits"]
       ELSE [envs |-> es \cup {new}, id |-> new.id, created |-> TRUE,
             error |-> "none"]

\* monitor_environment.mark_ok(check_in, ts)
mark_ok(es, id, t) ==
    LET e == EnvById(es, id)
    IN (es \ {e}) \cup {[e EXCEPT !.status = "ok", !.last_checkin = t]}

\* monitor_environment.mark_failed(ts, occurrence_context): the environment.
mark_failed(es, id, t) ==
    LET e == EnvById(es, id)
    IN (es \ {e}) \cup {[e EXCEPT !.status = "error", !.last_checkin = t]}

\* The candidates of the zero-GUID lookup (lines 457-463): the non-terminal
\* check-ins of the environment with the greatest date_added.
LatestOldest(cs, env) ==
    LET open == {c \in cs : /\ c.monitor_environment_id = env
                            /\ c.status \notin FINISHED_VALUES}
    IN {c \in open : \A d \in open : c.date_added <= d.date_added}
LatestCheckIns(cs, env) ==
    LET open == {c \in cs : /\ c.monitor_environment_id = env
                            /\ c.status \notin FINISHED_VALUES}
    IN {c \in open : \A d \in open : d.date_added <= c.date_added}

\* The candidates of the lookup by guid (lines 465-467).
CheckInsWithGuid(cs, g) == {c \in cs : c.guid = g}

\* The identity check of update_existing_check_in (lines 306-310).
IdentityMismatchEnvOnly(c, project, monitor, env) ==
    c.monitor_environment_id # env
IdentityMismatch(c, project, monitor, env) ==
    \/ c.project_id # project
    \/ c.monitor_id # monitor
    \/ c.monitor_environment_id # env

\* The terminal check of update_existing_check_in (line 320).
AlreadyFinished(c) == c.status \in FINISHED_VALUES

\* The name of the lock of line 379: checkin-creation:<guid>.
LockNameShared(g) == 0
LockName(g) == g

LockNames == {LockName(g) : g \in AllGuids}

\* uuid.UUID(params["check_in_id"]) raises ValueError (lines 359-367).
IsUuid(id) == id # BadGuid

\* MonitorCheckInValidator(data=params, partial=True).is_valid()
CheckInIsValid(m) ==
    /\ m.status \in {IN_PROGRESS, OK, ERROR}
    /\ (m.duration = NoneVal \/ m.duration >= 0)

\* The GUIDs in use: of a row, or of a message being processed.
UsedGuids ==
    {c.guid : c \in checkins} \cup {guid[w] : w \in Workers}

\* uuid.uuid4() (line 375): a value no check-in and no message carries.
Uuid4NotFresh == {CHOOSE g \in FreshGuids : \A h \in FreshGuids : g <= h}
Uuid4Values ==
    LET free == FreshGuids \ UsedGuids
    IN IF free = {} THEN {} ELSE {CHOOSE g \in free : \A h \in free : g <= h}

\* Rows written by the open transactions of the workers other than w.
MonitorsHeldByOthers(w) ==
    UNION {txn[v].monitors \cup {m.id : m \in txn[v].old_monitors} :
           v \in Workers \ {w}}
EnvsHeldByOthers(w) == UNION {txn[v].envs : v \in Workers \ {w}}

\* The end of the transaction: the row locks taken with select_for_update
\* are released.
ReleaseRowLocks(w) == [g \in AllGuids |-> IF rowlock[g] = w THEN 0 ELSE rowlock[g]]

\* lock.acquire() raises UnableToAcquireLock: the lock of that name is held.
UnableToAcquireLock(g) == lock[LockName(g)] # 0

\* process_message (lines 554-560): the try/except lets process_message
\* return normally whether or not _process_message raised.
ProcessMessageReraises(raised) == raised = "none"
ProcessMessageReturns(raised) == TRUE

\* The outcome counted by the handler of UnableToAcquireLock (lines
\* 533-538).
LockFailureCountedAsError == "error"
LockFailureOutcome == "failed_checkin_creation_lock"

\* Lines 253-381 for the check-in message m: the kill switch is evaluated
\* (lines 276-286), then the rate limiter is consulted (lines 288-298), the
\* check_in_id is parsed, the guid is chosen and the lock
\* checkin-creation:<guid> is taken (or UnableToAcquireLock is raised and
\* the message is dropped, line 533).
ProcessCheckIn(w, m) ==
    /\ msg' = [msg EXCEPT ![w] = m]
    /\ IF killswitch_matches_context(killswitch, KillswitchContext(m))
       THEN /\ outcomes' = [outcomes EXCEPT ![w] = <<"dropped.blocked">>]
            /\ pc' = [pc EXCEPT ![w] = "dropped"]
            /\ UNCHANGED <<lock, guid, ratelimit_hits>>
       ELSE /\ ratelimit_hits' =
                   [ratelimit_hits EXCEPT ![RateLimitKey(m)] = @ + 1]
            /\ IF is_limited(ratelimit_hits, RateLimitKey(m),
                             CHECKIN_QUOTA_LIMIT)
               THEN /\ outcomes' = [outcomes EXCEPT
                            ![w] = <<"dropped.ratelimited">>]
                    /\ pc' = [pc EXCEPT ![w] = "dropped"]
                    /\ UNCHANGED <<lock, guid>>
               ELSE IF ~IsUuid(m.check_in_id)
               THEN /\ outcomes' = [outcomes EXCEPT
                            ![w] = <<"failed_guid_validation">>]
                    /\ pc' = [pc EXCEPT ![w] = "dropped"]
                    /\ UNCHANGED <<lock, guid>>
               ELSE \E g \in (IF m.check_in_id = ZeroGuid THEN Uuid4Values
                              ELSE {m.check_in_id}) :
                      /\ guid' = [guid EXCEPT ![w] = g]
                      /\ IF UnableToAcquireLock(g)
                         THEN /\ outcomes' = [outcomes EXCEPT
                                      ![w] = <<LockFailureOutcome>>]
                              /\ pc' = [pc EXCEPT ![w] = "dropped"]
                              /\ UNCHANGED lock
                         ELSE /\ outcomes' = [outcomes EXCEPT ![w] = <<>>]
                              /\ lock' = [lock EXCEPT ![LockName(g)] = w]
                              /\ pc' = [pc EXCEPT ![w] = "locked"]
    /\ exception' = [exception EXCEPT ![w] = "none"]
    /\ UNCHANGED <<monitors, envs, checkins, occurrences, signals, rowlock,
                   monitor_id, env_id, check_in, txn, hook, lease_lost,
                   finished_by, committed, monitor_write, killswitch>>

\* A check-in message reaches an idle worker, which processes it up to the
\* lock (the tick trigger of lines 245-248 is the subject of Receive).
Deliver(w, m) ==
    /\ pc[w] = "idle"
    /\ delivered' = delivered + 1
    /\ message_type' = [message_type EXCEPT ![w] = "check_in"]
    /\ ProcessCheckIn(w, m)
    /\ UNCHANGED <<tickVars, findingsVars>>

\* The places of lines 254-298 and 556-557 where an unexpected exception can
\* be raised before the lock is requested.
FaultPoints == {"unpackb", "json.loads", "get_from_cache",
                "killswitch_matches_context", "is_limited"}

\* A message whose processing raises an unexpected exception before line
\* 380: nothing of _process_message catches it, process_message does
\* (lines 559-560) and logs it.
DeliverRaises(w, m, at) ==
    /\ pc[w] = "idle"
    /\ delivered' = delivered + 1
    /\ msg' = [msg EXCEPT ![w] = m]
    /\ exception' = [exception EXCEPT ![w] = at]
    /\ outcomes' = [outcomes EXCEPT ![w] = <<>>]
    /\ pc' = [pc EXCEPT ![w] = "dropped"]
    /\ UNCHANGED <<monitors, envs, checkins, occurrences, signals, lock,
                   rowlock, guid, monitor_id, env_id, check_in, txn, hook,
                   lease_lost, finished_by, ratelimit_hits, committed,
                   monitor_write>>
    /\ message_type' = [message_type EXCEPT ![w] = "check_in"]
    /\ UNCHANGED killswitch
    /\ UNCHANGED <<tickVars, findingsVars>>

\* Lines 242-243: a wrapper without the key message_type is a check-in.
MessageTypes == {"absent", "check_in", "clock_pulse"}
message_type_of(wrapper_type) ==
    IF wrapper_type = "absent" THEN "check_in" ELSE wrapper_type

\* Lines 245-248: the try/except around _try_monitor_tasks_trigger lets
\* _process_message go on whether or not the trigger raised.
TickFailurePropagates(result) == result # "raised"
TickFailureCaught(result) == TRUE

\* Lines 250-251: nothing else to do with clock pulses.
IsClockPulseNever(type) == FALSE
IsClockPulse(type) == type = "clock_pulse"

\* A message with timestamp t reaches an idle worker: its message_type is
\* defaulted and _try_monitor_tasks_trigger(ts) is entered (lines 242-246).
\* A clock pulse carries no payload.
Receive(w, wrapper_type, m, t) ==
    /\ pc[w] = "idle"
    /\ wrapper_type = "clock_pulse" => m = NoMessage
    /\ delivered' = delivered + 1
    /\ message_type' = [message_type EXCEPT
                           ![w] = message_type_of(wrapper_type)]
    /\ msg' = [msg EXCEPT ![w] = m]
    /\ pc' = [pc EXCEPT ![w] = "tick"]
    /\ exception' = [exception EXCEPT ![w] = "none"]
    /\ TickStart(w, t)
    /\ UNCHANGED <<monitors, envs, checkins, occurrences, signals, lock,
                   rowlock, guid, monitor_id, env_id, check_in, txn,
                   outcomes, hook, lease_lost, finished_by, ratelimit_hits,
                   committed, monitor_write, killswitch>>
    /\ UNCHANGED findingsVars

\* Lines 247-381 once _try_monitor_tasks_trigger has returned or raised: a
\* clock pulse returns, a wrapper without payload raises KeyError at line
\* 253, a check-in is processed up to the lock.
AfterTick(w) ==
    /\ pc[w] = "tick"
    /\ tpc[w] = "idle"
    /\ IF ~TickFailureCaught(tick_result[w])
       THEN /\ exception' = [exception EXCEPT ![w] = "tick"]
            /\ pc' = [pc EXCEPT ![w] = "dropped"]
            /\ UNCHANGED <<monitors, envs, checkins, occurrences, signals,
                           lock, rowlock, msg, guid, monitor_id, env_id,
                           check_in, txn, outcomes, hook, lease_lost,
                           finished_by, ratelimit_hits, committed,
                           monitor_write, killswitch>>
       ELSE IF IsClockPulse(message_type[w])
       THEN /\ pc' = [pc EXCEPT ![w] = "dropped"]
            /\ UNCHANGED <<monitors, envs, checkins, occurrences, signals,
                           lock, rowlock, msg, guid, monitor_id, env_id,
                           check_in, txn, outcomes, hook, lease_lost,
                           finished_by, ratelimit_hits, committed,
                           monitor_write, killswitch, exception>>
       ELSE IF msg[w] = NoMessage
       THEN /\ exception' = [exception EXCEPT ![w] = "payload"]
            /\ pc' = [pc EXCEPT ![w] = "dropped"]
            /\ UNCHANGED <<monitors, envs, checkins, occurrences, signals,
                           lock, rowlock, msg, guid, monitor_id, env_id,
                           check_in, txn, outcomes, hook, lease_lost,
                           finished_by, ratelimit_hits, committed,
                           monitor_write, killswitch>>
       ELSE ProcessCheckIn(w, msg[w])
    /\ UNCHANGED <<delivered, message_type>>
    /\ UNCHANGED <<tickVars, findingsVars>>

\* The check-in payloads of the behaviours of SpecPulse.
PulseMessages ==
    [project_id : {1}, monitor_slug : {"my-job"}, environment : {"prod"},
     check_in_id : {1},
     status : {IN_PROGRESS, OK}, duration : {NoneVal},
     start_time : {0}, monitor_config : {"none"}, trace_id : {"t1"}]

\* Lines 383-480, inside the lock and the transaction: validation,
\* _ensure_monitor_with_config, ensure_environment and the lookup of the
\* check-in with select_for_update. The early returns commit the transaction.
Resolve(w) ==
    /\ pc[w] = "locked"
    /\ LET m == msg[w]
           em == ensure_monitor_with_config(monitors, m.project_id,
                     slugify(m.monitor_slug), m.monitor_slug, m.monitor_config)
           ee == ensure_environment(envs, em.id, m.environment)
           found == IF m.check_in_id = ZeroGuid
                    THEN LatestCheckIns(checkins, ee.id)
                    ELSE CheckInsWithGuid(checkins, guid[w])
       IN IF ~CheckInIsValid(m)
          THEN /\ outcomes' = [outcomes EXCEPT
                       ![w] = Append(@, "failed_checkin_validation")]
               /\ pc' = [pc EXCEPT ![w] = "release"]
               /\ UNCHANGED <<monitors, envs, signals, rowlock, monitor_id,
                              env_id, check_in, txn, monitor_write>>
          ELSE IF em.id = 0
          THEN /\ outcomes' = [outcomes EXCEPT
                       ![w] = Append(@, "failed_validation")]
               /\ pc' = [pc EXCEPT ![w] = "release"]
               /\ UNCHANGED <<monitors, envs, signals, rowlock, monitor_id,
                              env_id, check_in, txn, monitor_write>>
          ELSE IF ee.error # "none"
          THEN \* lines 433-453: the handler returns inside transaction.atomic,
               \* so the block exits normally and what
               \* _ensure_monitor_with_config wrote is committed.
               /\ em.id \notin MonitorsHeldByOthers(w)
               /\ monitors' = em.monitors
               /\ monitor_write' = [monitor_write EXCEPT ![w] = em.write]
               /\ signals' = [signals EXCEPT !.first_monitor = @ + em.signalled]
               /\ monitor_id' = [monitor_id EXCEPT ![w] = em.id]
               /\ outcomes' = [outcomes EXCEPT ![w] = Append(@, ee.error)]
               /\ pc' = [pc EXCEPT ![w] = "release"]
               /\ UNCHANGED <<envs, rowlock, env_id, check_in, txn>>
          ELSE /\ em.id \notin MonitorsHeldByOthers(w)
               /\ ee.id \notin EnvsHeldByOthers(w)
               /\ monitors' = em.monitors
               /\ monitor_write' = [monitor_write EXCEPT ![w] = em.write]
               /\ envs' = ee.envs
               /\ signals' = [signals EXCEPT !.first_monitor = @ + em.signalled]
               /\ monitor_id' = [monitor_id EXCEPT ![w] = em.id]
               /\ env_id' = [env_id EXCEPT ![w] = ee.id]
               /\ IF found = {}
                  THEN /\ pc' = [pc EXCEPT ![w] = "create"]
                       /\ txn' = [txn EXCEPT ![w] =
                              [monitors |-> {x.id : x \in em.monitors} \
                                            {x.id : x \in monitors},
                               envs |-> {x.id : x \in ee.envs} \
                                        {x.id : x \in envs},
                               old_monitors |-> monitors \ em.monitors]]
                       /\ UNCHANGED <<rowlock, check_in, outcomes>>
                  ELSE \E c \in found :
                         /\ rowlock[c.guid] \in {0, w}
                         /\ check_in' = [check_in EXCEPT ![w] = c]
                         /\ IF /\ m.check_in_id # ZeroGuid
                               /\ c.monitor_environment_id # ee.id
                            THEN /\ outcomes' = [outcomes EXCEPT ![w] =
                                     Append(@, "failed_monitor_environment_guid_match")]
                                 /\ pc' = [pc EXCEPT ![w] = "release"]
                                 /\ UNCHANGED <<rowlock, txn>>
                            ELSE /\ pc' = [pc EXCEPT ![w] = "update"]
                                 /\ rowlock' = [rowlock EXCEPT ![c.guid] = w]
                                 /\ txn' = [txn EXCEPT ![w] =
                                        [monitors |-> {x.id : x \in em.monitors} \
                                                      {x.id : x \in monitors},
                                         envs |-> {x.id : x \in ee.envs} \
                                                  {x.id : x \in envs},
                                         old_monitors |-> monitors \ em.monitors]]
                                 /\ UNCHANGED outcomes
    /\ UNCHANGED <<checkins, occurrences, lock, delivered, msg, guid, hook,
                   lease_lost, finished_by, ratelimit_hits, committed,
                   exception>>
    /\ UNCHANGED <<killswitch, message_type>>
    /\ UNCHANGED <<tickVars, findingsVars>>

\* update_existing_check_in (lines 300-357) applied to the check-in object c:
\* the rejection counter ("none" when the update is made) and the values
\* written by existing_check_in.update().
\* Lines 330-333: the duration of an update that carries none, from the
\* start time of the event and the date_added of the row.
InferredDurationReversed(start_time, date_added) == date_added - start_time
InferredDuration(start_time, date_added) == start_time - date_added

\* Lines 486-489: the date_added of a new row.
InferredDateAddedIgnoresDuration(start_time, duration) == start_time
InferredDateAdded(start_time, duration) ==
    IF duration # NoneVal THEN start_time - duration ELSE start_time

\* Lines 335-341: the update is rejected when valid_duration refuses the
\* explicit or inferred duration.
FailsDurationCheckNever(updated_duration) == FALSE
FailsDurationCheck(updated_duration) == ~valid_duration(updated_duration)

\* Lines 344-346: date_updated moves only for a heartbeat (IN_PROGRESS).
NewDateUpdatedAlways(c, updated_status, new_date_updated) == new_date_updated
NewDateUpdated(c, updated_status, new_date_updated) ==
    IF updated_status = IN_PROGRESS THEN new_date_updated ELSE c.date_updated

update_existing_check_in(c, m, project, monitor, env, config) ==
    LET updated_duration ==
            IF DurationMs(m.duration) = NoneVal
            THEN InferredDuration(m.start_time, c.date_added)
            ELSE DurationMs(m.duration)
        rejected ==
            IF IdentityMismatch(c, project, monitor, env) THEN "guid_mismatch"
            ELSE IF AlreadyFinished(c) THEN "checkin_finished"
            ELSE IF FailsDurationCheck(updated_duration) THEN "failed_duration_check"
            ELSE "none"
    IN [rejected |-> rejected,
        status |-> m.status,
        duration |-> updated_duration,
        date_updated |-> NewDateUpdated(c, m.status, m.start_time),
        timeout_at |-> get_timeout_at(config, m.status, m.start_time)]

\* Lines 522-527: the hook chosen by the status of the check-in object.
HookFor(status) == IF status = ERROR THEN "mark_failed" ELSE "mark_ok"

\* Lines 350-355: check_in.update(status, duration, date_updated,
\* timeout_at) writes these four columns of the row and no other.
UpdatedRowResetsDateAdded(row, r) == [row EXCEPT !.status = r.status, !.duration = r.duration, !.date_updated = r.date_updated, !.timeout_at = r.timeout_at, !.date_added = r.date_updated]
UpdatedRow(row, r) == [row EXCEPT !.status = r.status, !.duration = r.duration, !.date_updated = r.date_updated, !.timeout_at = r.timeout_at]

\* Lines 482 and 518, then 522-532: update_existing_check_in on the check-in
\* object, the hook on the monitor environment, the "complete" counter and
\* the commit of the transaction.
UpdateExisting(w) ==
    /\ pc[w] = "update"
    /\ LET m == msg[w]
           c == check_in[w]
           r == update_existing_check_in(c, m, m.project_id, monitor_id[w],
                    env_id[w], MonitorById(monitors, c.monitor_id).config)
           row == CheckInByGuid(checkins, c.guid)
           status == IF r.rejected = "none" THEN r.status ELSE c.status
           h == HookFor(status)
       IN /\ r.rejected = "none" => rowlock[c.guid] \in {0, w}
          /\ checkins' =
                 IF r.rejected = "none"
                 THEN (checkins \ {row}) \cup {UpdatedRow(row, r)}
                 ELSE checkins
          /\ check_in' = [check_in EXCEPT ![w] =
                 IF r.rejected = "none"
                 THEN UpdatedRow(c, r)
                 ELSE c]
          /\ hook' = [hook EXCEPT ![w] = h]
          /\ envs' = IF h = "mark_failed" THEN mark_failed(envs, env_id[w], m.start_time)
                     ELSE IF h = "mark_ok" THEN mark_ok(envs, env_id[w], m.start_time)
                     ELSE envs
          /\ occurrences' =
                 IF h = "mark_failed"
                 THEN Append(occurrences,
                             [env |-> env_id[w], trace_id |-> m.trace_id])
                 ELSE occurrences
          /\ outcomes' = [outcomes EXCEPT ![w] =
                 IF r.rejected = "none" THEN Append(@, "complete")
                 ELSE Append(Append(@, r.rejected), "complete")]
          /\ finished_by' =
                 IF r.rejected = "none" /\ r.status \in FINISHED_VALUES
                 THEN [finished_by EXCEPT ![c.guid] = m]
                 ELSE finished_by
    /\ pc' = [pc EXCEPT ![w] = "release"]
    /\ txn' = [txn EXCEPT ![w] = EmptyTxn]
    /\ rowlock' = ReleaseRowLocks(w)
    /\ UNCHANGED <<monitors, signals, lock, delivered, msg, guid, monitor_id,
                   env_id, lease_lost, ratelimit_hits, committed, exception,
                   monitor_write>>
    /\ UNCHANGED <<killswitch, message_type>>
    /\ UNCHANGED <<tickVars, findingsVars>>

\* The rows after the rollback of the transaction of worker w.
RolledBackMonitors(w) ==
    {x \in monitors : x.id \notin txn[w].monitors /\
                      x.id \notin {o.id : o \in txn[w].old_monitors}}
    \cup txn[w].old_monitors
RolledBackEnvsKeepsWrites(w) == envs
RolledBackEnvs(w) == {x \in envs : x.id \notin txn[w].envs}

\* MonitorCheckIn.objects.get_or_create (lines 501-516): the rows that
\* match the lookup project_id, monitor, monitor_environment and guid.
GetOrCreateFindsNothing(cs, project, monitor, env, g) == {}
GetOrCreateFinds(cs, project, monitor, env, g) ==
    {c \in cs : /\ c.project_id = project
                /\ c.monitor_id = monitor
                /\ c.monitor_environment_id = env
                /\ c.guid = g}

\* The rows after get_or_create (lines 501-516): a row is inserted with the
\* defaults only when the lookup found none.
GetOrCreateRowsAlwaysInserts(cs, found, new) == cs \cup {new}
GetOrCreateRows(cs, found, new) == IF found # {} THEN cs ELSE cs \cup {new}

\* Lines 484-520, then 522-532: the create path. get_or_create either finds
\* the row of (project, monitor, monitor_environment, guid), or fails on the
\* unique guid (IntegrityError, caught at line 539 after the rollback), or
\* creates the row.
GetOrCreate(w) ==
    /\ pc[w] = "create"
    /\ LET m == msg[w]
           duration == DurationMs(m.duration)
           date_added == InferredDateAdded(m.start_time, duration)
           monitor == MonitorById(monitors, monitor_id[w])
           env == EnvById(envs, env_id[w])
           new == [guid |-> guid[w],
                   project_id |-> m.project_id,
                   monitor_id |-> monitor_id[w],
                   monitor_environment_id |-> env_id[w],
                   status |-> m.status,
                   duration |-> duration,
                   date_added |-> date_added,
                   date_updated |-> m.start_time,
                   timeout_at |-> get_timeout_at(monitor.config, m.status, date_added),
                   expected_time |->
                       IF env.last_checkin # NoneVal
                       THEN get_next_scheduled_checkin(monitor, env.last_checkin)
                       ELSE NoneVal,
                   monitor_config |-> monitor.config,
                   trace_id |-> m.trace_id]
           existing == GetOrCreateFinds(checkins, m.project_id,
                                        monitor_id[w], env_id[w], guid[w])
           h == HookFor(m.status)
       IN IF existing # {}
          THEN /\ check_in' = [check_in EXCEPT ![w] = CHOOSE c \in existing : TRUE]
               /\ checkins' = GetOrCreateRows(checkins, existing, new)
               /\ pc' = [pc EXCEPT ![w] = "update"]
               /\ UNCHANGED <<monitors, envs, occurrences, signals,
                              txn, outcomes, hook, finished_by, exception>>
          ELSE IF CheckInsWithGuid(checkins, guid[w]) # {}
          THEN /\ monitors' = RolledBackMonitors(w)
               /\ envs' = RolledBackEnvs(w)
               /\ exception' = [exception EXCEPT ![w] = "IntegrityError"]
               /\ outcomes' = [outcomes EXCEPT ![w] = Append(@, "error")]
               /\ pc' = [pc EXCEPT ![w] = "release"]
               /\ txn' = [txn EXCEPT ![w] = EmptyTxn]
               /\ UNCHANGED <<checkins, occurrences, signals, check_in, hook,
                              finished_by>>
          ELSE /\ checkins' = GetOrCreateRows(checkins, existing, new)
               /\ check_in' = [check_in EXCEPT ![w] = new]
               /\ signals' = [signals EXCEPT !.first_checkin = @ + 1]
               /\ hook' = [hook EXCEPT ![w] = h]
               /\ envs' = IF h = "mark_failed"
                          THEN mark_failed(envs, env_id[w], m.start_time)
                          ELSE IF h = "mark_ok"
                          THEN mark_ok(envs, env_id[w], m.start_time)
                          ELSE envs
               /\ occurrences' =
                      IF h = "mark_failed"
                      THEN Append(occurrences,
                                  [env |-> env_id[w], trace_id |-> m.trace_id])
                      ELSE occurrences
               /\ outcomes' = [outcomes EXCEPT ![w] = Append(@, "complete")]
               /\ pc' = [pc EXCEPT ![w] = "release"]
               /\ txn' = [txn EXCEPT ![w] = EmptyTxn]
               /\ finished_by' =
                      IF m.status \in FINISHED_VALUES
                      THEN [finished_by EXCEPT ![guid[w]] = m]
                      ELSE finished_by
               /\ UNCHANGED <<monitors, exception>>
    /\ UNCHANGED <<lock, rowlock, delivered, msg, guid, monitor_id, env_id,
                   lease_lost, ratelimit_hits, committed, monitor_write>>
    /\ UNCHANGED <<killswitch, message_type>>
    /\ UNCHANGED <<tickVars, findingsVars>>

\* Lines 539-545: an unexpected exception raised inside the locked
\* reconciliation (the store is unavailable, say): transaction.atomic rolls
\* back, the handler counts status=error and _process_message returns.
RaiseInside(w) ==
    /\ pc[w] \in {"locked", "update", "create"}
    /\ monitors' = RolledBackMonitors(w)
    /\ envs' = RolledBackEnvs(w)
    /\ exception' = [exception EXCEPT ![w] = "inside"]
    /\ outcomes' = [outcomes EXCEPT ![w] = Append(@, "error")]
    /\ pc' = [pc EXCEPT ![w] = "release"]
    /\ txn' = [txn EXCEPT ![w] = EmptyTxn]
    /\ rowlock' = ReleaseRowLocks(w)
    /\ UNCHANGED <<checkins, occurrences, signals, lock, delivered, msg, guid,
                   monitor_id, env_id, check_in, hook, lease_lost, finished_by,
                   ratelimit_hits, committed, monitor_write>>
    /\ UNCHANGED <<killswitch, message_type>>
    /\ UNCHANGED <<tickVars, findingsVars>>

\* The return from _process_message: at the exit of "with lock.acquire()"
\* the lock is released if this worker still holds it; a message dropped
\* before the lock was taken just returns. process_message then returns to
\* RunTask, whose next step CommitOffsets commits the offset of the message
\* (lines 562-565).
Release(w) ==
    /\ pc[w] \in {"release", "dropped"}
    /\ pc' = [pc EXCEPT ![w] = "idle"]
    /\ lock' = [n \in LockNames |->
                   IF pc[w] = "release" /\ n = LockName(guid[w]) /\ lock[n] = w
                   THEN 0 ELSE lock[n]]
    /\ msg' = [msg EXCEPT ![w] = NoMessage]
    /\ guid' = [guid EXCEPT ![w] = BadGuid]
    /\ monitor_id' = [monitor_id EXCEPT ![w] = 0]
    /\ env_id' = [env_id EXCEPT ![w] = 0]
    /\ check_in' = [check_in EXCEPT ![w] = NoCheckIn]
    /\ outcomes' = [outcomes EXCEPT ![w] = <<>>]
    /\ hook' = [hook EXCEPT ![w] = "none"]
    /\ lease_lost' = [lease_lost EXCEPT ![w] = FALSE]
    /\ committed' = IF ProcessMessageReturns(exception[w])
                    THEN committed + 1 ELSE committed
    /\ monitor_write' = [monitor_write EXCEPT ![w] = "none"]
    /\ UNCHANGED <<monitors, envs, checkins, occurrences, signals, rowlock,
                   delivered, txn, finished_by, ratelimit_hits, exception>>
    /\ message_type' = [message_type EXCEPT ![w] = "none"]
    /\ UNCHANGED killswitch
    /\ UNCHANGED <<tickVars, findingsVars>>

\* The lease of a held lock (duration=2 seconds, line 379) runs out while
\* its holder is still inside: the store frees the lock.
LeaseExpire(w) ==
    /\ pc[w] \in {"locked", "update", "create"}
    /\ lock[LockName(guid[w])] = w
    /\ lock' = [lock EXCEPT ![LockName(guid[w])] = 0]
    /\ lease_lost' = [lease_lost EXCEPT ![w] = TRUE]
    /\ UNCHANGED <<monitors, envs, checkins, occurrences, signals, rowlock,
                   delivered, pc, msg, guid, monitor_id, env_id, check_in, txn,
                   outcomes, hook, finished_by, ratelimit_hits, committed,
                   exception, monitor_write>>
    /\ UNCHANGED <<killswitch, message_type>>
    /\ UNCHANGED <<tickVars, findingsVars>>

\* The window of the rate limiter (CHECKIN_QUOTA_WINDOW seconds) ends: the
\* store drops the counters.
WindowExpire ==
    /\ \E k \in RateLimitKeys : ratelimit_hits[k] > 0
    /\ ratelimit_hits' = [k \in RateLimitKeys |-> 0]
    /\ UNCHANGED <<monitors, envs, checkins, occurrences, signals, lock,
                   rowlock, delivered, pc, msg, guid, monitor_id, env_id,
                   check_in, txn, outcomes, hook, lease_lost, finished_by,
                   committed, exception, monitor_write>>
    /\ UNCHANGED <<killswitch, message_type>>
    /\ UNCHANGED <<tickVars, findingsVars>>

\* The check-in messages of the behaviours of Spec: racing workers.
Messages ==
    [project_id : {1}, monitor_slug : {"my-job"}, environment : {"prod"},
     check_in_id : ClientGuids,
     status : {IN_PROGRESS, OK}, duration : {NoneVal},
     start_time : {0}, monitor_config : {"none"}, trace_id : {"t1"}]

\* The check-in messages of the behaviours of SpecSeq: one worker, one
\* monitor environment, any status and start time; one message with a
\* check_in_id that is no UUID and one with an explicit duration.
SeqMessages ==
    [project_id : {1}, monitor_slug : {"my-job"}, environment : {"prod"},
     check_in_id : {ZeroGuid} \cup ClientGuids,
     status : {IN_PROGRESS, OK, ERROR}, duration : {NoneVal},
     start_time : Times, monitor_config : {"none"}, trace_id : {"t1"}]
    \cup
    [project_id : {1}, monitor_slug : {"my-job"}, environment : {"prod"},
     check_in_id : {BadGuid, 1},
     status : {OK}, duration : {3},
     start_time : {MaxTime}, monitor_config : {"none"}, trace_id : {"t1"}]
    \cup
    [project_id : {1}, monitor_slug : {"my-job"}, environment : {"prod"},
     check_in_id : {1},
     status : {ERROR}, duration : {NoneVal},
     start_time : {MaxTime}, monitor_config : {"none"}, trace_id : {"t2"}]

\* The check-in messages of the behaviours of SpecIdentity: one worker, two
\* projects of one organization, two environments, with and without a
\* monitor_config.
IdentityMessages ==
    [project_id : Projects, monitor_slug : {"my-job"},
     environment : {"prod", "dev"},
     check_in_id : {ZeroGuid, 1},
     status : {IN_PROGRESS, OK}, duration : {NoneVal},
     start_time : {0}, monitor_config : {"none", "c1"}, trace_id : {"t1"}]

\* The check-in messages of the behaviours of SpecFields: one check_in_id,
\* messages that differ in start time, trace id and monitor config.
FieldMessages ==
    [project_id : {1}, monitor_slug : {"my-job"}, environment : {"prod"},
     check_in_id : {1},
     status : {IN_PROGRESS, OK}, duration : {NoneVal},
     start_time : Times, monitor_config : {"none", "c2"},
     trace_id : {"t1", "t2"}]

\* The check-in messages of the behaviours of SpecRace: racing workers, one
\* check_in_id, an ERROR message at either time and an IN_PROGRESS message.
RaceMessages ==
    [project_id : {1}, monitor_slug : {"my-job"}, environment : {"prod"},
     check_in_id : {1},
     status : {ERROR}, duration : {NoneVal},
     start_time : Times, monitor_config : {"none"}, trace_id : {"t1"}]
    \cup
    [project_id : {1}, monitor_slug : {"my-job"}, environment : {"prod"},
     check_in_id : {1},
     status : {IN_PROGRESS}, duration : {NoneVal},
     start_time : {MaxTime}, monitor_config : {"none"}, trace_id : {"t1"}]

\* An operator turns the option crons.organization.disable-check-in on or
\* off for organizations.
SetKillswitch(orgs) ==
    /\ killswitch # orgs
    /\ killswitch' = orgs
    /\ UNCHANGED <<monitors, envs, checkins, occurrences, signals, lock,
                   rowlock, delivered, pc, msg, guid, monitor_id, env_id,
                   check_in, txn, outcomes, hook, lease_lost, finished_by,
                   ratelimit_hits, committed, exception, monitor_write,
                   message_type>>
    /\ UNCHANGED <<tickVars, findingsVars>>

\* The check-in messages of the behaviours of SpecKillSwitch: one worker,
\* two projects of the organization.
KillSwitchMessages ==
    [project_id : Projects, monitor_slug : {"my-job"}, environment : {"prod"},
     check_in_id : {1},
     status : {IN_PROGRESS, OK}, duration : {NoneVal},
     start_time : {0}, monitor_config : {"none"}, trace_id : {"t1"}]

\* The check-in messages of the behaviours of SpecRateLimit: one worker, one
\* monitor, two environments (two keys of the rate limiter).
RateMessages ==
    [project_id : {1}, monitor_slug : {"my-job"}, environment : {"prod", "dev"},
     check_in_id : {1},
     status : {IN_PROGRESS}, duration : {NoneVal},
     start_time : {0}, monitor_config : {"none"}, trace_id : {"t1"}]

\* The check-in messages of the behaviours of SpecMonitor: one worker, a
\* registered and an unknown slug, new environments (one with a name that is
\* too long), without a monitor_config, with a valid one and with one that
\* fails validation.
MonitorMessages ==
    [project_id : {1}, monitor_slug : Slugs,
     environment : {"dev", "staging", LongEnvironmentName},
     check_in_id : {1},
     status : {IN_PROGRESS}, duration : {NoneVal},
     start_time : {0}, monitor_config : {"none", "c2", "bad"},
     trace_id : {"t1"}]

\* The check-in messages of the behaviours of SpecRollback: one worker, a
\* registered and an unknown slug, new environments, without and with a
\* monitor_config.
RollbackMessages ==
    [project_id : {1}, monitor_slug : Slugs,
     environment : {"dev", "staging"},
     check_in_id : {1},
     status : {IN_PROGRESS}, duration : {NoneVal},
     start_time : {0}, monitor_config : {"none", "c2"},
     trace_id : {"t1"}]

\* The check-in messages of the behaviours of SpecDuration: one worker, one
\* check-in, heartbeats and terminal updates with earlier and later start
\* times, without a duration and with one above the ceiling of
\* valid_duration.
DurationMessages ==
    [project_id : {1}, monitor_slug : {"my-job"}, environment : {"prod"},
     check_in_id : {1},
     status : {IN_PROGRESS, OK},
     duration : {NoneVal, 2 * (DurationCeiling + 1)},
     start_time : Times, monitor_config : {"none"}, trace_id : {"t1"}]

\* The check-in messages of the behaviours of SpecLegacySlug: one worker,
\* a slug that slugify changes and one it does not, without a
\* monitor_config, with one that fails validation and with a valid one.
LegacyMessages ==
    [project_id : {1}, monitor_slug : {"My Job", "new-job"},
     environment : {"prod"},
     check_in_id : {1},
     status : {IN_PROGRESS, OK}, duration : {NoneVal},
     start_time : {0}, monitor_config : {"none", "bad", "c2"},
     trace_id : {"t1"}]

\* The check-in messages of the behaviours of SpecZeroRace: racing workers,
\* one monitor environment, a check-in opened with a GUID of the client and
\* check-ins with the all-zero GUID.
ZeroRaceMessages ==
    [project_id : {1}, monitor_slug : {"my-job"}, environment : {"prod"},
     check_in_id : {1},
     status : {IN_PROGRESS}, duration : {NoneVal},
     start_time : {0}, monitor_config : {"none"}, trace_id : {"t1"}]
    \cup
    [project_id : {1}, monitor_slug : {"my-job"}, environment : {"prod"},
     check_in_id : {ZeroGuid},
     status : {IN_PROGRESS, OK}, duration : {NoneVal},
     start_time : {0}, monitor_config : {"none"}, trace_id : {"t1"}]

\* The transport messages of the behaviours of SpecDriver: one worker, one
\* monitor environment, check_in_ids that are and are not UUIDs.
DriverMessages ==
    [project_id : {1}, monitor_slug : {"my-job"}, environment : {"prod"},
     check_in_id : {BadGuid, 1},
     status : {IN_PROGRESS, OK}, duration : {NoneVal},
     start_time : {0}, monitor_config : {"none"}, trace_id : {"t1"}]

\* A monitor registered through the API before the consumer starts.
RegisteredMonitor ==
    [id |-> 1, organization_id |-> 1, project_id |-> 1, slug |-> "my-job",
     name |-> "My Job", status |-> "active", type |-> "cron_job",
     config |-> "c1"]

\* Its "prod" environment, when an earlier check-in has created it.
RegisteredEnvironment ==
    [id |-> 1, monitor_id |-> 1, name |-> "prod", status |-> "active",
     last_checkin |-> NoneVal]

\* A monitor stored under a slug that is not slugified.
LegacyMonitor ==
    [id |-> 1, organization_id |-> 1, project_id |-> 1, slug |-> "My Job",
     name |-> "My Job", status |-> "active", type |-> "cron_job",
     config |-> "c1"]

\* No check-in yet, every worker idle.
CheckInInitRest ==
    /\ checkins = {}
    /\ occurrences = <<>>
    /\ signals = [first_monitor |-> 0, first_checkin |-> 0]
    /\ lock = [n \in LockNames |-> 0]
    /\ rowlock = [g \in AllGuids |-> 0]
    /\ delivered = 0
    /\ pc = [w \in Workers |-> "idle"]
    /\ msg = [w \in Workers |-> NoMessage]
    /\ guid = [w \in Workers |-> BadGuid]
    /\ monitor_id = [w \in Workers |-> 0]
    /\ env_id = [w \in Workers |-> 0]
    /\ check_in = [w \in Workers |-> NoCheckIn]
    /\ txn = [w \in Workers |-> EmptyTxn]
    /\ outcomes = [w \in Workers |-> <<>>]
    /\ hook = [w \in Workers |-> "none"]
    /\ lease_lost = [w \in Workers |-> FALSE]
    /\ finished_by = [g \in AllGuids |-> NoMessage]
    /\ ratelimit_hits = [k \in RateLimitKeys |-> 0]
    /\ committed = 0
    /\ exception = [w \in Workers |-> "none"]
    /\ monitor_write = [w \in Workers |-> "none"]
    /\ killswitch = {}
    /\ message_type = [w \in Workers |-> "none"]

CheckInInit ==
    /\ monitors = {RegisteredMonitor}
    /\ envs \in {{}, {RegisteredEnvironment}}
    /\ CheckInInitRest

vars == <<tickVars, findingsVars, ciVars>>

\* Any number of attempts with arbitrary timestamps, from an empty register.
TickInit ==
    /\ TickInitLocals
    /\ register = NoneTs
    /\ attempts = 0
    /\ CheckInInit
    /\ ComparatorFindingsInit(<<>>)
    /\ envs = {}

TickNext ==
    \E i \in Instances :
        \/ \E t \in TsValues : TickStart(i, t) /\ UNCHANGED <<ciVars, findingsVars>>
        \/ TickGet(i) /\ UNCHANGED <<ciVars, findingsVars>>
        \/ TickGetSet(i) /\ UNCHANGED <<ciVars, findingsVars>>

SpecTick == TickInit /\ [][TickNext]_vars

\* Every instance runs one attempt for the same minute M; the register is
\* empty or holds an earlier minute; nobody else writes the register.
SameMinuteInit ==
    /\ dispatched = [m \in Minutes |-> 0]
    /\ skipped_warnings = 0
    /\ attempts = NumInstances
    /\ precheck_last_ts = [i \in Instances |-> NoneTs]
    /\ last_ts = [i \in Instances |-> NoneTs]
    /\ tick_result = [i \in Instances |-> "none"]
    /\ tpc = [i \in Instances |-> "get"]
    /\ \E M \in Minutes :
          /\ ts \in [Instances -> {t \in TsValues : reference_ts(t) = M}]
          /\ register \in {NoneTs} \cup {m \in Minutes : m < M}
    /\ CheckInInit
    /\ ComparatorFindingsInit(<<>>)
    /\ envs = {}

SameMinuteNext ==
    \E i \in Instances :
        \/ TickGet(i) /\ UNCHANGED <<ciVars, findingsVars>>
        \/ TickGetSet(i) /\ UNCHANGED <<ciVars, findingsVars>>

SpecTickSameMinute == SameMinuteInit /\ [][SameMinuteNext]_vars

\* Check-in messages delivered in any order to racing workers.
Init ==
    /\ CheckInInit
    /\ ComparatorFindingsInit(<<>>)
    /\ TickInitLocals
    /\ register = NoneTs
    /\ attempts = 0

Next ==
    \E w \in Workers :
        \/ \E m \in Messages : delivered < MaxDeliveries /\ Deliver(w, m)
        \/ Resolve(w)
        \/ UpdateExisting(w)
        \/ GetOrCreate(w)
        \/ Release(w)
        \/ LeaseExpire(w)

Spec == Init /\ [][Next]_vars

\* One worker processing one message after the other.
SeqNext ==
    \/ \E m \in SeqMessages : delivered < MaxDeliveries /\ Deliver(1, m)
    \/ Resolve(1)
    \/ UpdateExisting(1)
    \/ GetOrCreate(1)
    \/ Release(1)

SpecSeq == Init /\ [][SeqNext]_vars

IdentityNext ==
    \/ \E m \in IdentityMessages : delivered < MaxDeliveries /\ Deliver(1, m)
    \/ Resolve(1)
    \/ UpdateExisting(1)
    \/ GetOrCreate(1)
    \/ Release(1)

SpecIdentity == Init /\ [][IdentityNext]_vars


\* One worker and more deliveries than the quota of the rate limiter.
RateLimitNext ==
    \/ \E m \in RateMessages : delivered < MaxRateDeliveries /\ Deliver(1, m)
    \/ Resolve(1)
    \/ UpdateExisting(1)
    \/ GetOrCreate(1)
    \/ Release(1)
    \/ WindowExpire

SpecRateLimit == Init /\ [][RateLimitNext]_vars

\* One worker, messages that create monitors and environments.
MonitorNext ==
    \/ \E m \in MonitorMessages : delivered < MaxDeliveries /\ Deliver(1, m)
    \/ Resolve(1)
    \/ UpdateExisting(1)
    \/ GetOrCreate(1)
    \/ Release(1)

SpecMonitor == Init /\ [][MonitorNext]_vars

\* The driver of one partition: one worker, messages whose processing may
\* raise an unexpected exception anywhere.
DriverNext ==
    \/ \E m \in DriverMessages : delivered < MaxDeliveries /\ Deliver(1, m)
    \/ \E m \in DriverMessages, at \in FaultPoints :
           delivered < MaxDeliveries /\ DeliverRaises(1, m, at)
    \/ Resolve(1)
    \/ UpdateExisting(1)
    \/ GetOrCreate(1)
    \/ RaiseInside(1)
    \/ Release(1)

SpecDriver == Init /\ [][DriverNext]_vars

\* RunTask calls process_message to its end: a worker that is processing a
\* message takes its next step.
DriverStep ==
    Resolve(1) \/ UpdateExisting(1) \/ GetOrCreate(1) \/ Release(1)

SpecDriverFair == SpecDriver /\ WF_vars(DriverStep)

\* Racing workers on one check_in_id, with start times out of order.
RaceNext ==
    \E w \in Workers :
        \/ \E m \in RaceMessages : delivered < MaxDeliveries /\ Deliver(w, m)
        \/ Resolve(w)
        \/ UpdateExisting(w)
        \/ GetOrCreate(w)
        \/ Release(w)
        \/ LeaseExpire(w)

SpecRace == Init /\ [][RaceNext]_vars

\* Any sequence of append and extend calls on a ComparatorFindings built
\* from any list.
FindingsInit ==
    /\ \E fs \in FindingLists(1) : ComparatorFindingsInit(fs)
    /\ CheckInInit
    /\ envs = {}
    /\ TickInitLocals
    /\ register = NoneTs
    /\ attempts = 0

FindingsNext ==
    \/ \E f \in FindingKinds :
           AppendFinding(f) /\ UNCHANGED <<tickVars, ciVars>>
    \/ \E more \in FindingLists(MaxExtend) :
           ExtendFindings(more) /\ UNCHANGED <<tickVars, ciVars>>

SpecFindings == FindingsInit /\ [][FindingsNext]_vars

\* One worker while the kill switch of the organization is turned on and
\* off.
KillSwitchNext ==
    \/ \E m \in KillSwitchMessages :
           delivered < MaxDeliveries /\ Deliver(1, m)
    \/ Resolve(1)
    \/ UpdateExisting(1)
    \/ GetOrCreate(1)
    \/ Release(1)
    \/ \E orgs \in SUBSET Organizations : SetKillswitch(orgs)

SpecKillSwitch == Init /\ [][KillSwitchNext]_vars

\* One worker receiving check-ins and clock pulses; the tick trigger may
\* raise.
PulseNext ==
    \/ \E wrapper_type \in MessageTypes, m \in PulseMessages \cup {NoMessage},
          t \in TsValues :
           delivered < MaxDeliveries /\ Receive(1, wrapper_type, m, t)
    \/ TickGet(1) /\ UNCHANGED <<ciVars, findingsVars>>
    \/ TickGetSet(1) /\ UNCHANGED <<ciVars, findingsVars>>
    \/ TickRaises(1) /\ UNCHANGED <<ciVars, findingsVars>>
    \/ AfterTick(1)
    \/ Resolve(1)
    \/ UpdateExisting(1)
    \/ GetOrCreate(1)
    \/ Release(1)

SpecPulse == Init /\ [][PulseNext]_vars

\* One worker whose locked reconciliation may raise an unexpected exception
\* after it created or updated the Monitor and the MonitorEnvironment.
RollbackNext ==
    \/ \E m \in RollbackMessages :
           delivered < MaxDeliveries /\ Deliver(1, m)
    \/ Resolve(1)
    \/ UpdateExisting(1)
    \/ GetOrCreate(1)
    \/ RaiseInside(1)
    \/ Release(1)

SpecRollback == Init /\ [][RollbackNext]_vars

\* One worker updating one check-in with durations valid_duration refuses.
DurationNext ==
    \/ \E m \in DurationMessages :
           delivered < MaxDeliveries /\ Deliver(1, m)
    \/ Resolve(1)
    \/ UpdateExisting(1)
    \/ GetOrCreate(1)
    \/ Release(1)

SpecDuration == Init /\ [][DurationNext]_vars

\* One worker, a project without monitors or with one monitor stored under
\* a slug that is not slugified.
LegacyInit ==
    /\ monitors \in {{}, {LegacyMonitor}}
    /\ envs = {}
    /\ CheckInInitRest
    /\ ComparatorFindingsInit(<<>>)
    /\ TickInitLocals
    /\ register = NoneTs
    /\ attempts = 0

LegacyNext ==
    \/ \E m \in LegacyMessages :
           delivered < MaxDeliveries /\ Deliver(1, m)
    \/ Resolve(1)
    \/ UpdateExisting(1)
    \/ GetOrCreate(1)
    \/ Release(1)

SpecLegacySlug == LegacyInit /\ [][LegacyNext]_vars

\* Racing workers processing check-ins with the all-zero GUID for one
\* monitor environment.
ZeroRaceNext ==
    \E w \in Workers :
        \/ \E m \in ZeroRaceMessages :
               delivered < MaxDeliveries /\ Deliver(w, m)
        \/ Resolve(w)
        \/ UpdateExisting(w)
        \/ GetOrCreate(w)
        \/ Release(w)

SpecZeroRace == Init /\ [][ZeroRaceNext]_vars

\* One worker, one check_in_id: a check-in and the updates after it.
FieldsNext ==
    \/ \E m \in FieldMessages : delivered < MaxDeliveries /\ Deliver(1, m)
    \/ Resolve(1)
    \/ UpdateExisting(1)
    \/ GetOrCreate(1)
    \/ Release(1)

SpecFields == Init /\ [][FieldsNext]_vars

(***************************************************************************)
(* Claims about the tick deduplication.                                    *)
(***************************************************************************)

AllReturned == \A i \in Instances : tpc[i] = "idle"
Claimers == {i \in Instances : tick_result[i] = "dispatched"}
SameMinute == reference_ts(ts[1])

\* C1: when N instances race for the same minute M from a register that is
\* empty or holds an earlier minute, at most one of them has dispatched at
\* any time, and once all have returned exactly one has: _dispatch_tasks ran
\* once for M, and every other instance returned without dispatching.
C1_ExactlyOneClaims ==
    /\ Cardinality(Claimers) <= 1
    /\ AllReturned =>
          /\ Cardinality(Claimers) = 1
          /\ dispatched = [m \in Minutes |-> IF m = SameMinute THEN 1 ELSE 0]
          /\ \A i \in Instances \ Claimers :
                 tick_result[i] \in {"already_handled", "lost_race"}

\* C1 witness: all instances have returned, one lost the GETSET race and
\* one was stopped by the pre-check.
C1_Witness ==
    /\ AllReturned
    /\ \E i, j \in Instances :
          /\ tick_result[i] = "lost_race"
          /\ tick_result[j] = "already_handled"

\* C2: _dispatch_tasks runs at most once for each minute value.
C2_AtMostOncePerMinute == \A m \in Minutes : dispatched[m] <= 1

\* C3: an attempt whose reference minute is less than or equal to the value
\* stored in the register, as seen by its pre-check GET or as returned by its
\* GETSET, does not dispatch.
C3_NoClaimAtOrBelowStored ==
    \A i \in Instances :
        LET ref == reference_ts(ts[i]) IN
        (\/ (precheck_last_ts[i] # NoneTs /\ ref <= precheck_last_ts[i])
         \/ (last_ts[i] # NoneTs /\ ref <= last_ts[i]))
        => tick_result[i] # "dispatched"

\* C3 witness: one attempt was stopped by the pre-check, and another passed
\* the pre-check and then found at its GETSET a value at or above its own
\* minute, installed in between by another instance.
C3_Witness ==
    \E i, j \in Instances :
        /\ tick_result[i] = "already_handled"
        /\ reference_ts(ts[i]) <= precheck_last_ts[i]
        /\ tick_result[j] = "lost_race"
        /\ ~AlreadyHandled(precheck_last_ts[j], reference_ts(ts[j]))
        /\ reference_ts(ts[j]) <= last_ts[j]


(***************************************************************************)
(* Claims about ComparatorFindings.                                        *)
(***************************************************************************)

\* C27: after any sequence of append and extend calls the stored sequence
\* is the initial list followed by every added finding in call order
\* (nothing removed, merged or reordered), and empty() is true exactly when
\* that sequence has no element.
C27_FindingsKeepCallOrder ==
    /\ findings = initial_findings \o added_findings
    /\ empty(findings) <=> (initial_findings = <<>> /\ added_findings = <<>>)

\* C27 witness: a list built from one finding, to which a different finding
\* was added first and further findings after it, is not empty.
C27_Witness ==
    /\ Len(initial_findings) = 1
    /\ Len(added_findings) >= 3
    /\ added_findings[1] # initial_findings[1]
    /\ added_findings[2] # added_findings[1]
    /\ ~empty(findings)
(***************************************************************************)
(* Claims about the check-in reconciliation.                               *)
(***************************************************************************)

Range(s) == {s[i] : i \in 1..Len(s)}
Rejections == {"guid_mismatch", "checkin_finished", "failed_duration_check"}
OpenCheckIns(cs, env) ==
    {c \in cs : c.monitor_environment_id = env /\ c.status \notin FINISHED_VALUES}
\* The worker holds, or held until its lease ran out, the lock of its guid.
Inside(w) == pc[w] \in {"locked", "update", "create", "release"}

\* C4: once a check-in row has a terminal status, no step of any worker
\* changes its status, duration, date_updated or timeout_at, and a worker
\* that finishes the update path on a row that is terminal counts
\* checkin_finished.
C4_TerminalRowsFrozen ==
    [][/\ \A c \in checkins :
            c.status \in FINISHED_VALUES =>
                \E d \in checkins' :
                    /\ d.guid = c.guid
                    /\ d.status = c.status
                    /\ d.duration = c.duration
                    /\ d.date_updated = c.date_updated
                    /\ d.timeout_at = c.timeout_at
       /\ \A w \in Workers :
            (/\ pc[w] = "update"
             /\ pc'[w] = "release"
             /\ CheckInByGuid(checkins, check_in[w].guid).status
                    \in FINISHED_VALUES)
            => "checkin_finished" \in Range(outcomes'[w])]_vars

\* C5: while a worker processes again the message with a non-zero GUID that
\* made its check-in terminal, no check-in row, monitor or monitor
\* environment changes and no failure occurrence is recorded, and the
\* message ends with the checkin_finished outcome.
C5_ReplayChangesNothing ==
    [][\A w \in Workers :
         (/\ pc[w] \in {"locked", "update", "create"}
          /\ msg[w].check_in_id # ZeroGuid
          /\ finished_by[guid[w]] = msg[w])
         => /\ checkins' = checkins
            /\ monitors' = monitors
            /\ envs' = envs
            /\ occurrences' = occurrences
            /\ pc'[w] = "release" =>
                   "checkin_finished" \in Range(outcomes'[w])]_vars

\* C6: in the step that counts a rejection of the update path
\* (guid_mismatch, checkin_finished or failed_duration_check) neither
\* mark_ok nor mark_failed is invoked and no persisted row changes.
C6_RejectedIsDropped ==
    [][\A w \in Workers :
         (/\ Range(outcomes[w]) \cap Rejections = {}
          /\ Range(outcomes'[w]) \cap Rejections # {})
         => /\ hook'[w] = "none"
            /\ envs' = envs
            /\ occurrences' = occurrences
            /\ checkins' = checkins
            /\ monitors' = monitors]_vars

\* The worker leaves the lookup or the update path with a found check-in
\* whose project, monitor or monitor environment is not the resolved one.
FoundWithOtherIdentity(w) ==
    /\ pc[w] \in {"locked", "update"}
    /\ pc'[w] = "release"
    /\ check_in'[w] # NoCheckIn
    /\ \/ check_in'[w].project_id # msg[w].project_id
       \/ check_in'[w].monitor_id # monitor_id'[w]
       \/ check_in'[w].monitor_environment_id # env_id'[w]

\* C7 as stated: a found check-in whose project, monitor or monitor
\* environment differs from the resolved identity is rejected with outcome
\* guid_mismatch and no check-in row is mutated.
C7_MismatchIsGuidMismatch ==
    [][\A w \in Workers :
         FoundWithOtherIdentity(w)
         => /\ "guid_mismatch" \in Range(outcomes'[w])
            /\ checkins' = checkins]_vars

\* C7 amended: a found check-in whose monitor environment differs from the
\* resolved one is rejected with outcome
\* failed_monitor_environment_guid_match; one whose monitor environment
\* matches but whose project or monitor differs is rejected with outcome
\* guid_mismatch; in both cases no check-in row is mutated.
C7_MismatchRejected ==
    [][\A w \in Workers :
         FoundWithOtherIdentity(w)
         => /\ checkins' = checkins
            /\ IF check_in'[w].monitor_environment_id # env_id'[w]
               THEN /\ "failed_monitor_environment_guid_match"
                           \in Range(outcomes'[w])
                    /\ "guid_mismatch" \notin Range(outcomes'[w])
               ELSE "guid_mismatch" \in Range(outcomes'[w])]_vars

\* C7 witness: a message for project 2 found, by its GUID, a check-in of
\* the same monitor environment that belongs to project 1, and was counted
\* as guid_mismatch; the row is as it was found.
C7_Witness ==
    \E w \in Workers :
        /\ pc[w] = "release"
        /\ "guid_mismatch" \in Range(outcomes[w])
        /\ check_in[w].project_id # msg[w].project_id
        /\ check_in[w].monitor_environment_id = env_id[w]
        /\ check_in[w] \in checkins

\* C8: two workers processing messages with the same non-zero GUID are
\* never both between the acquisition and the release of the lock unless
\* the lease of one of them has run out; a worker that takes up a message
\* whose GUID is held by another worker with an unexpired lease drops it at
\* once with failed_checkin_creation_lock, leaving the lock as it is; a
\* worker that takes up a message whose GUID no other worker holds gets the
\* lock, whatever other GUIDs are held.
C8_LockSerializesSameGuid ==
    [][/\ \A w, v \in Workers :
            (/\ w # v
             /\ pc'[w] \in {"locked", "update", "create", "release"}
             /\ pc'[v] \in {"locked", "update", "create", "release"}
             /\ guid'[w] = guid'[v])
            => lease_lost'[w] \/ lease_lost'[v]
       /\ \A w \in Workers :
            (/\ pc[w] = "idle"
             /\ pc'[w] # "idle"
             /\ msg'[w].check_in_id \notin {BadGuid, ZeroGuid})
            => IF \E v \in Workers \ {w} :
                      Inside(v) /\ ~lease_lost[v] /\ guid[v] = guid'[w]
               THEN /\ pc'[w] = "dropped"
                    /\ outcomes'[w] = <<"failed_checkin_creation_lock">>
                    /\ lock' = lock
               ELSE pc'[w] = "locked"]_vars

\* C8 witness: one worker is inside with the lock of a GUID, and the other
\* worker dropped a message with the same non-zero GUID on
\* UnableToAcquireLock.
C8_Witness ==
    \E w, v \in Workers :
        /\ w # v
        /\ Inside(w)
        /\ ~lease_lost[w]
        /\ pc[v] = "dropped"
        /\ outcomes[v] = <<"failed_checkin_creation_lock">>
        /\ msg[v].check_in_id # ZeroGuid
        /\ guid[v] = guid[w]

\* C9: a message with the all-zero GUID whose resolved monitor environment
\* has a non-terminal check-in takes the update path with a non-terminal
\* check-in of that environment of the greatest date_added; the update path
\* creates no check-in row and leaves every other row as it is, and when no
\* rejection is counted the chosen row has the status of the message.
C9_ZeroGuidUpdatesLatest ==
    [][\A w \in Workers :
         msg[w].check_in_id = ZeroGuid =>
           /\ (/\ pc[w] = "locked"
               /\ pc'[w] # "locked"
               /\ env_id'[w] # 0
               /\ OpenCheckIns(checkins, env_id'[w]) # {})
              => /\ pc'[w] = "update"
                 /\ checkins' = checkins
                 /\ check_in'[w] \in OpenCheckIns(checkins, env_id'[w])
                 /\ \A d \in OpenCheckIns(checkins, env_id'[w]) :
                        d.date_added <= check_in'[w].date_added
           /\ (pc[w] = "update" /\ pc'[w] # "update")
              => /\ {c.guid : c \in checkins'} = {c.guid : c \in checkins}
                 /\ \A c \in checkins :
                        c.guid # check_in[w].guid => c \in checkins'
                 /\ Range(outcomes'[w]) \cap Rejections = {} =>
                        CheckInByGuid(checkins', check_in[w].guid).status
                            = msg[w].status]_vars

\* C9 witness: a zero-GUID message has updated the later of two
\* non-terminal check-ins of its monitor environment.
C9_Witness ==
    \E w \in Workers :
        /\ pc[w] = "release"
        /\ msg[w].check_in_id = ZeroGuid
        /\ check_in[w].guid # guid[w]
        /\ outcomes[w] = <<"complete">>
        /\ check_in[w] \in checkins
        /\ check_in[w].status = msg[w].status
        /\ \E d \in OpenCheckIns(checkins, env_id[w]) :
               d.date_added < check_in[w].date_added

\* C10: a message with the all-zero GUID whose resolved monitor environment
\* has no non-terminal check-in takes the create path, which adds exactly
\* one check-in row; its GUID is the one uuid4() returned, is not the
\* all-zero value and is the GUID of no row that existed before.
C10_ZeroGuidCreatesOne ==
    [][\A w \in Workers :
         msg[w].check_in_id = ZeroGuid =>
           /\ (/\ pc[w] = "locked"
               /\ pc'[w] # "locked"
               /\ env_id'[w] # 0
               /\ OpenCheckIns(checkins, env_id'[w]) = {})
              => pc'[w] = "create"
           /\ (pc[w] = "create" /\ pc'[w] # "create")
              => /\ pc'[w] = "release"
                 /\ checkins \subseteq checkins'
                 /\ Cardinality(checkins' \ checkins) = 1
                 /\ \A new \in checkins' \ checkins :
                        /\ new.guid = guid[w]
                        /\ new.guid # ZeroGuid
                        /\ new.guid \in FreshGuids
                        /\ new.guid \notin {c.guid : c \in checkins}
                        /\ new.monitor_environment_id = env_id[w]]_vars

\* C10 witness: a zero-GUID message has created a check-in with a uuid4()
\* GUID in a monitor environment whose earlier check-in is terminal.
C10_Witness ==
    \E w \in Workers :
        /\ pc[w] = "release"
        /\ msg[w].check_in_id = ZeroGuid
        /\ check_in[w].guid = guid[w]
        /\ guid[w] \in FreshGuids
        /\ check_in[w] \in checkins
        /\ \E c \in checkins :
               /\ c.guid # guid[w]
               /\ c.monitor_environment_id = env_id[w]
               /\ c.status \in FINISHED_VALUES

\* C11: when the update path changes an in-progress check-in row whose
\* date_added is T0 for a message without a duration whose start time is T1
\* (no rejection is counted), the row afterwards has the duration T1 - T0.
C11_UpdateInfersDuration ==
    [][\A w \in Workers :
         (/\ pc[w] = "update"
          /\ pc'[w] = "release"
          /\ msg[w].duration = NoneVal
          /\ check_in[w].status = IN_PROGRESS
          /\ "complete" \in Range(outcomes'[w])
          /\ Range(outcomes'[w]) \cap Rejections = {})
         => CheckInByGuid(checkins', check_in[w].guid).duration
                = msg[w].start_time - check_in[w].date_added]_vars

\* C11 witness: a message without a duration and with start time 1 has
\* updated an in-progress row added at time 0, which now has duration 1.
C11_Witness ==
    \E w \in Workers :
        /\ pc[w] = "release"
        /\ outcomes[w] = <<"complete">>
        /\ delivered >= 2
        /\ msg[w].duration = NoneVal
        /\ msg[w].start_time = 1
        /\ check_in[w] \in checkins
        /\ check_in[w].date_added = 0
        /\ check_in[w].duration = 1

\* C12: the row that the create path adds for a message with start time T
\* has date_updated = T, and date_added = T when the message has no duration
\* and T minus the duration in milliseconds when it has one.
C12_CreateDates ==
    [][\A w \in Workers :
         (/\ pc[w] = "create"
          /\ pc'[w] = "release"
          /\ checkins' # checkins)
         => /\ checkins' = checkins \cup {check_in'[w]}
            /\ check_in'[w].date_updated = msg[w].start_time
            /\ check_in'[w].date_added =
                   IF msg[w].duration = NoneVal THEN msg[w].start_time
                   ELSE msg[w].start_time - DurationMs(msg[w].duration)]_vars

\* C12 witness: the first message, which carries a duration, has created a
\* row whose date_added lies the duration before its date_updated.
C12_Witness ==
    \E w \in Workers :
        /\ pc[w] = "release"
        /\ outcomes[w] = <<"complete">>
        /\ delivered = 1
        /\ msg[w].duration # NoneVal
        /\ checkins = {check_in[w]}
        /\ check_in[w].date_updated = msg[w].start_time
        /\ check_in[w].date_added = check_in[w].date_updated - check_in[w].duration
        /\ check_in[w].date_added < check_in[w].date_updated

\* The key of the rate limiter for the message of a worker.
KeyOf(m) == <<organization_id(m.project_id), slugify(m.monitor_slug), m.environment>>
RateLimited(w) == pc[w] = "dropped" /\ outcomes[w] = <<"dropped.ratelimited">>

\* C13: a check-in message that arrives when 5 or more messages of its
\* (organization, slugified slug, environment) key have been counted in the
\* current window is dropped with the outcome dropped.ratelimited, and a
\* message that arrives earlier is not; the dropped message takes no lock
\* and neither its arrival nor its return changes a Monitor,
\* MonitorEnvironment or CheckIn row.
C13_SixthIsRateLimited ==
    [][\A w \in Workers :
         /\ (pc[w] = "idle" /\ pc'[w] # "idle") =>
               IF ratelimit_hits[KeyOf(msg'[w])] >= CHECKIN_QUOTA_LIMIT
               THEN /\ RateLimited(w)'
                    /\ lock' = lock
                    /\ <<monitors, envs, checkins>>' = <<monitors, envs, checkins>>
               ELSE ~RateLimited(w)'
         /\ (RateLimited(w) /\ pc'[w] # pc[w]) =>
               /\ pc'[w] = "idle"
               /\ lock' = lock
               /\ <<monitors, envs, checkins>>' = <<monitors, envs, checkins>>]_vars

\* C13 witness: the sixth message of a key within one window has been
\* dropped while the other key of the monitor is below its quota.
C13_Witness ==
    \E w \in Workers :
        /\ RateLimited(w)
        /\ ratelimit_hits[KeyOf(msg[w])] = CHECKIN_QUOTA_LIMIT + 1
        /\ \E k \in RateLimitKeys :
               ratelimit_hits[k] > 0 /\ ratelimit_hits[k] < CHECKIN_QUOTA_LIMIT
        /\ \A n \in LockNames : lock[n] = 0

\* The message of the worker names a slug that no Monitor has and carries
\* a monitor_config that passes validation.
UnknownSlugValidConfig(w) ==
    /\ \A x \in monitors : x.slug # slugify(msg[w].monitor_slug)
    /\ ConfigIsValid(msg[w].monitor_config)

\* C14: a check-in message for a slug that has no Monitor, with a valid
\* monitor_config, that is processed to the outcome complete creates exactly
\* one Monitor and one MonitorEnvironment and signals first-monitor-created
\* once when the monitor is resolved, creates exactly one CheckIn row and
\* signals first-check-in once on the create path, and changes no row count
\* and sends no signal in its other steps.
C14_FirstCheckInCreatesAll ==
    [][\A w \in Workers :
         /\ (/\ pc[w] = "locked"
             /\ UnknownSlugValidConfig(w)
             /\ pc'[w] \notin {"locked", "release"})
            => /\ pc'[w] = "create"
               /\ Cardinality(monitors') = Cardinality(monitors) + 1
               /\ Cardinality(envs') = Cardinality(envs) + 1
               /\ checkins' = checkins
               /\ signals' = [signals EXCEPT !.first_monitor = @ + 1]
               /\ \E x \in monitors' \ monitors :
                      /\ x.slug = slugify(msg[w].monitor_slug)
                      /\ x.config = validated_data(msg[w].monitor_config)
                      /\ \E e \in envs' \ envs :
                             /\ e.monitor_id = x.id
                             /\ e.name = msg[w].environment
         /\ (/\ pc[w] = "create"
             /\ txn[w].monitors # {}
             /\ pc'[w] = "release"
             /\ outcomes'[w] = <<"complete">>)
            => /\ Cardinality(checkins') = Cardinality(checkins) + 1
               /\ Cardinality(monitors') = Cardinality(monitors)
               /\ Cardinality(envs') = Cardinality(envs)
               /\ signals' = [signals EXCEPT !.first_checkin = @ + 1]
               /\ \E c \in checkins' \ checkins :
                      /\ c.monitor_id = monitor_id[w]
                      /\ c.monitor_environment_id = env_id[w]
         /\ (pc[w] \in {"idle", "release"} /\ pc'[w] # pc[w])
            => <<monitors, envs, checkins, signals>>'
                   = <<monitors, envs, checkins, signals>>]_vars

\* C14 witness: one message for the unknown slug new-job with a valid
\* monitor_config has been processed to the outcome complete: there is one
\* more Monitor, its one MonitorEnvironment, its one CheckIn, and each signal
\* was sent once.
C14_Witness ==
    \E w \in Workers :
        /\ pc[w] = "release"
        /\ delivered = 1
        /\ outcomes[w] = <<"complete">>
        /\ msg[w].monitor_slug = "new-job"
        /\ ConfigIsValid(msg[w].monitor_config)
        /\ Cardinality(monitors) = 2
        /\ Cardinality({e \in envs : e.monitor_id = monitor_id[w]}) = 1
        /\ Cardinality(checkins) = 1
        /\ signals = [first_monitor |-> 1, first_checkin |-> 1]

\* The worker ends the update path or the create path with a check-in row.
ReachesHooks(w) ==
    /\ pc[w] \in {"update", "create"}
    /\ pc'[w] = "release"
    /\ "complete" \in Range(outcomes'[w])

\* C15: in the step that leaves a check-in row with its status for the
\* message, exactly one hook updates the monitor environment of the row:
\* mark_failed, recording one occurrence with the trace_id of the message,
\* when the persisted status of the row is ERROR, and mark_ok, recording
\* none, otherwise; no other step records an occurrence.
C15_HookFollowsPersistedStatus ==
    [][\A w \in Workers :
         IF ReachesHooks(w)
         THEN LET row == CheckInByGuid(checkins', check_in'[w].guid)
                  env == EnvById(envs', row.monitor_environment_id)
              IN /\ env.last_checkin = msg[w].start_time
                 /\ IF row.status = ERROR
                    THEN /\ hook'[w] = "mark_failed"
                         /\ env.status = "error"
                         /\ occurrences' = Append(occurrences,
                                [env |-> env.id, trace_id |-> msg[w].trace_id])
                    ELSE /\ hook'[w] = "mark_ok"
                         /\ env.status = "ok"
                         /\ occurrences' = occurrences
         ELSE pc'[w] # pc[w] => occurrences' = occurrences]_vars

\* C16: whatever a transport message holds and whatever outcome or
\* exception its processing produces, process_message returns and the
\* offset of the message is committed: the messages committed never exceed
\* the messages taken, a worker that is idle has committed every message it
\* took (so none is taken a second time), and the n-th message taken is
\* eventually the n-th committed.
C16_EveryMessageIsCommitted ==
    /\ [](/\ committed <= delivered
          /\ (\A w \in Workers : pc[w] = "idle") => committed = delivered)
    /\ \A n \in 1..MaxDeliveries : (delivered = n) ~> (committed = n)

\* C16 witness: a message whose payload could not be decoded has been
\* processed and its offset committed.
C16_Witness ==
    /\ pc[1] = "idle"
    /\ exception[1] = "json.loads"
    /\ delivered = 1
    /\ committed = 1

\* C17: a worker whose message raised an unexpected exception, wherever it
\* was raised, has counted the outcome error for that message.
C17_ExceptionsCountedAsError ==
    \A w \in Workers :
        (pc[w] # "idle" /\ exception[w] # "none")
            => "error" \in Range(outcomes[w])

EnvironmentFailures ==
    {"failed_monitor_environment_limits",
     "failed_monitor_environment_name_length"}

\* C18: a message for which ensure_environment fails (the outcome
\* failed_monitor_environment_limits or
\* failed_monitor_environment_name_length is counted) leaves the Monitor,
\* MonitorEnvironment and CheckIn rows as they were before the message.
C18_EnvironmentFailureLeavesNoState ==
    [][\A w \in Workers :
         (/\ pc[w] = "locked"
          /\ pc'[w] = "release"
          /\ Range(outcomes'[w]) \cap EnvironmentFailures # {})
         => /\ monitors' = monitors
            /\ envs' = envs
            /\ checkins' = checkins]_vars

\* The monitors of the organization with the slug of the worker's message.
MonitorsOfSlug(w) ==
    {x \in monitors :
        /\ x.organization_id = organization_id(msg[w].project_id)
        /\ x.slug = slugify(msg[w].monitor_slug)}

\* C19: when _ensure_monitor_with_config is called with a config that
\* validates for a slug that has a monitor, a validated config equal to the
\* stored config of the monitor leaves the monitor rows as they are, and one
\* that differs is written by update_config and by nothing else, changing
\* the config of the monitor only.
C19_ConfigWrittenOnlyByUpdateConfig ==
    [][\A w \in Workers :
         (/\ pc[w] = "locked"
          /\ pc'[w] # "locked"
          /\ CheckInIsValid(msg[w])
          /\ ConfigIsValid(msg[w].monitor_config))
         => \A x \in MonitorsOfSlug(w) :
               IF x.config = validated_data(msg[w].monitor_config)
               THEN monitors' = monitors /\ monitor_write'[w] = "none"
               ELSE /\ monitor_write'[w] = "update_config"
                    /\ monitors' = (monitors \ {x}) \cup
                           {[x EXCEPT !.config =
                                validated_data(msg[w].monitor_config)]}]_vars

\* The message of the worker carries a monitor_config that fails validation.
InvalidConfig(w) ==
    msg[w].monitor_config # "none" /\ ~ConfigIsValid(msg[w].monitor_config)

\* C20: for a message whose monitor_config fails validation, resolving the
\* monitor raises nothing, writes no monitor and sends no signal; without a
\* monitor of the slug the message ends with failed_validation, with one it
\* goes on with that monitor, and when it is processed to the outcome
\* complete its check-in row exists with the status of the message.
C20_InvalidConfigKeepsMonitor ==
    [][\A w \in Workers :
         /\ (/\ pc[w] = "locked"
             /\ pc'[w] # "locked"
             /\ CheckInIsValid(msg[w])
             /\ InvalidConfig(w))
            => /\ monitors' = monitors
               /\ signals' = signals
               /\ monitor_write'[w] = "none"
               /\ exception'[w] = "none"
               /\ "error" \notin Range(outcomes'[w])
               /\ IF MonitorsOfSlug(w) = {}
                  THEN /\ pc'[w] = "release"
                       /\ outcomes'[w] = <<"failed_validation">>
                  ELSE /\ monitor_id'[w] \in {x.id : x \in MonitorsOfSlug(w)}
                       /\ "failed_validation" \notin Range(outcomes'[w])
                       /\ outcomes'[w] = <<>> => pc'[w] \in {"create", "update"}
         /\ (/\ pc[w] \in {"create", "update"}
             /\ InvalidConfig(w)
             /\ pc'[w] = "release"
             /\ outcomes'[w] = <<"complete">>)
            => \E c \in checkins' :
                  /\ c.guid = guid[w]
                  /\ c.monitor_id = monitor_id[w]
                  /\ c.status = msg[w].status
                  /\ c = check_in'[w]]_vars

\* C20 witness: the first message names the registered monitor and carries
\* a monitor_config that fails validation; its check-in has been created
\* and the monitor is as it was.
C20_Witness ==
    \E w \in Workers :
        /\ pc[w] = "release"
        /\ delivered = 1
        /\ InvalidConfig(w)
        /\ outcomes[w] = <<"complete">>
        /\ monitors = {RegisteredMonitor}
        /\ monitor_id[w] = RegisteredMonitor.id
        /\ checkins = {check_in[w]}
        /\ check_in[w].monitor_id = RegisteredMonitor.id

Blocked(w) == pc[w] = "dropped" /\ outcomes[w] = <<"dropped.blocked">>

\* C21: a check-in message that arrives while the kill switch
\* crons.organization.disable-check-in matches the organization of its
\* project is dropped with the outcome dropped.blocked and raises nothing,
\* and a message that arrives while it does not match is not; for the
\* dropped message the rate limiter is not consulted, no lock is taken, and
\* neither its arrival nor its return changes a Monitor, MonitorEnvironment
\* or CheckIn row.
C21_KillswitchDrops ==
    [][\A w \in Workers :
         /\ (pc[w] = "idle" /\ pc'[w] # "idle") =>
               IF organization_id(msg'[w].project_id) \in killswitch
               THEN /\ Blocked(w)'
                    /\ exception'[w] = "none"
                    /\ ratelimit_hits' = ratelimit_hits
                    /\ lock' = lock
                    /\ <<monitors, envs, checkins, occurrences, signals>>'
                           = <<monitors, envs, checkins, occurrences, signals>>
               ELSE ~Blocked(w)'
         /\ (Blocked(w) /\ pc'[w] # pc[w]) =>
               /\ pc'[w] = "idle"
               /\ ratelimit_hits' = ratelimit_hits
               /\ lock' = lock
               /\ <<monitors, envs, checkins, occurrences, signals>>'
                      = <<monitors, envs, checkins, occurrences, signals>>]_vars

\* C21 witness: a check-in of project 2 has been dropped by the kill switch
\* of its organization after an earlier check-in was stored; the rate
\* limiter has counted the earlier message only and no lock is held.
C21_Witness ==
    \E w \in Workers :
        /\ Blocked(w)
        /\ msg[w].project_id = 2
        /\ delivered = 2
        /\ checkins # {}
        /\ ratelimit_hits[KeyOf(msg[w])] = 1
        /\ \A n \in LockNames : lock[n] = 0

LockFailed(w) ==
    pc[w] = "dropped" /\ outcomes[w] = <<"failed_checkin_creation_lock">>

\* C24: a message that requests the lock checkin-creation:<guid> while
\* another worker holds it is dropped with the single outcome
\* failed_checkin_creation_lock: no exception reaches the driver, the locks
\* and every row are as before, and the next step of the worker is its
\* return with the offset committed, never a second acquisition; a message
\* that requests a free lock is not counted as a lock failure.
C24_LockFailureDrops ==
    [][\A w \in Workers :
         /\ (pc[w] = "idle" /\ pc'[w] # "idle" /\ guid'[w] # BadGuid) =>
               IF lock[LockName(guid'[w])] # 0
               THEN /\ LockFailed(w)'
                    /\ exception'[w] = "none"
                    /\ lock' = lock
                    /\ <<monitors, envs, checkins, occurrences, signals>>'
                           = <<monitors, envs, checkins, occurrences, signals>>
               ELSE /\ pc'[w] = "locked"
                    /\ lock'[LockName(guid'[w])] = w
         /\ (LockFailed(w) /\ pc'[w] # pc[w]) =>
               /\ pc'[w] = "idle"
               /\ committed' = committed + 1
               /\ lock' = lock
               /\ <<monitors, envs, checkins, occurrences, signals>>'
                      = <<monitors, envs, checkins, occurrences, signals>>]_vars

\* C24 witness: a worker has dropped its message on the lock failure while
\* the other worker holds the lock of the same guid inside its transaction.
C24_Witness ==
    \E w \in Workers, v \in Workers :
        /\ w # v
        /\ LockFailed(w)
        /\ lock[LockName(guid[w])] = v
        /\ pc[v] \in {"update", "create"}

CheckInState ==
    <<monitors, envs, checkins, occurrences, signals, lock, rowlock,
      ratelimit_hits, outcomes, guid>>

\* C22: every message starts exactly one tick attempt, and starts it before
\* anything of the check-in is processed: the number of attempts equals the
\* number of messages received, no step other than the receipt starts an
\* attempt, and no step changes the rate-limit counters, the locks, the
\* rows or the outcomes while the attempt runs. When the attempt has
\* returned or raised, no exception reaches the driver because of it, and
\* the step taken for a check-in with a payload is the processing of that
\* check-in, the same whether the attempt raised or not.
C22_TickOnceThenCheckIn ==
    /\ [](attempts = delivered)
    /\ [][\A w \in Workers :
            /\ (pc[w] = "idle" /\ pc'[w] # "idle") =>
                  /\ pc'[w] = "tick"
                  /\ tpc'[w] = "get"
                  /\ attempts' = attempts + 1
                  /\ CheckInState' = CheckInState
            /\ pc[w] # "idle" => attempts' = attempts
            /\ (pc[w] = "tick" /\ pc'[w] = "tick") =>
                  CheckInState' = CheckInState
            /\ (pc[w] = "tick" /\ pc'[w] # "tick") =>
                  /\ tpc[w] = "idle"
                  /\ exception'[w] # "tick"
                  /\ (message_type[w] = "check_in" /\ msg[w] # NoMessage) =>
                        /\ exception'[w] = "none"
                        /\ ProcessCheckIn(w, msg[w])]_vars

\* C22 witness: the tick attempt of a check-in message raised and the
\* check-in was nevertheless stored with outcome complete.
C22_Witness ==
    \E w \in Workers :
        /\ tick_result[w] = "raised"
        /\ message_type[w] = "check_in"
        /\ pc[w] = "release"
        /\ outcomes[w] = <<"complete">>
        /\ \E c \in checkins : c.guid = guid[w]

\* C23: while a worker handles a clock pulse, from its receipt to its
\* return, no step changes a rate-limit counter, a lock, a Monitor,
\* MonitorEnvironment or CheckIn row, no outcome is counted and no exception
\* is raised; only the tick register and the locals of the trigger change.
C23_ClockPulseTouchesNothing ==
    /\ [](\A w \in Workers :
            message_type[w] = "clock_pulse" =>
               /\ pc[w] \in {"tick", "dropped"}
               /\ outcomes[w] = <<>>
               /\ exception[w] = "none"
               /\ guid[w] = BadGuid)
    /\ [][\A w \in Workers :
            (message_type[w] = "clock_pulse"
               \/ message_type'[w] = "clock_pulse") =>
                  CheckInState' = CheckInState]_vars

\* C23 witness: a clock pulse has returned after its tick was dispatched,
\* while a check-in stored earlier is still in the database.
C23_Witness ==
    \E w \in Workers :
        /\ message_type[w] = "clock_pulse"
        /\ pc[w] = "dropped"
        /\ tick_result[w] = "dispatched"
        /\ checkins # {}

OutcomeTags ==
    {"dropped.blocked", "dropped.ratelimited", "failed_guid_validation",
     "failed_checkin_validation", "failed_validation",
     "failed_monitor_limits", "failed_monitor_environment_limits",
     "failed_monitor_environment_name_length",
     "failed_monitor_environment_guid_match", "guid_mismatch",
     "checkin_finished", "failed_duration_check",
     "failed_checkin_creation_lock", "error", "complete"}

\* C25: when the processing of a check-in message has ended, exactly one
\* outcome counter has been incremented for it and its tag is one of the
\* listed tags.
C25_ExactlyOneOutcome ==
    \A w \in Workers :
        pc[w] \in {"release", "dropped"} =>
            /\ Len(outcomes[w]) = 1
            /\ outcomes[w][1] \in OutcomeTags

\* C26: when an unexpected exception is raised inside the critical section,
\* error is counted and no CheckIn row changes; an exception raised before
\* any write leaves every row as it was; after an exception in the first
\* message of a behaviour the Monitor and MonitorEnvironment rows are the
\* rows of the initial state, whatever was created or updated before the
\* exception; and the lock is free once the worker has returned.
C26_ExceptionRollsBack ==
    /\ [](\A w \in Workers :
            /\ (delivered = 1 /\ exception[w] = "inside") =>
                  /\ monitors = {RegisteredMonitor}
                  /\ envs \subseteq {RegisteredEnvironment}
                  /\ checkins = {}
            /\ pc[w] = "idle" => \A n \in LockNames : lock[n] # w)
    /\ [][\A w \in Workers :
            (exception[w] # "inside" /\ exception'[w] = "inside") =>
               /\ checkins' = checkins
               /\ outcomes'[w] = Append(outcomes[w], "error")
               /\ pc'[w] = "release"
               /\ rowlock' = [g \in AllGuids |->
                                 IF rowlock[g] = w THEN 0 ELSE rowlock[g]]
               /\ pc[w] = "locked" =>
                     (monitors' = monitors /\ envs' = envs)]_vars

\* C26 witness: the first message created the Monitor of an unknown slug
\* and its environment (the signal of the first monitor was sent), then the
\* exception was raised, and neither row is in the database.
C26_Witness ==
    \E w \in Workers :
        /\ delivered = 1
        /\ exception[w] = "inside"
        /\ msg[w].monitor_slug = "new-job"
        /\ signals.first_monitor = 1
        /\ monitors = {RegisteredMonitor}
        /\ envs \subseteq {RegisteredEnvironment}

\* C28: when a worker on the create path runs get_or_create and a row for
\* its project, monitor, monitor environment and guid exists, written by a
\* concurrent worker after this worker's lookup found nothing, the worker
\* takes that row to the update path: no exception is raised, no outcome is
\* counted by that step and no row is added; and at no time do two CheckIn
\* rows have the same guid.
C28_RaceCreatedRowIsUpdated ==
    /\ [](\A c, d \in checkins : c.guid = d.guid => c = d)
    /\ [][\A w \in Workers :
            (/\ pc[w] = "create"
             /\ pc'[w] # "create"
             /\ \E c \in checkins :
                   /\ c.project_id = msg[w].project_id
                   /\ c.monitor_id = monitor_id[w]
                   /\ c.monitor_environment_id = env_id[w]
                   /\ c.guid = guid[w])
            => /\ pc'[w] = "update"
               /\ check_in'[w] \in checkins
               /\ check_in'[w].guid = guid[w]
               /\ checkins' = checkins
               /\ exception'[w] = "none"
               /\ outcomes'[w] = outcomes[w]]_vars

\* C28 witness: a worker that went to the create path (it holds no row
\* lock, its lookup found nothing) is on the update path with the row the
\* other worker created for the same guid.
C28_Witness ==
    \E w \in Workers :
        /\ pc[w] = "update"
        /\ rowlock[guid[w]] # w
        /\ check_in[w] \in checkins
        /\ check_in[w].guid = guid[w]
        /\ Cardinality({c \in checkins : c.guid = guid[w]}) = 1

\* The update of worker w is accepted in this step.
AcceptedUpdate(w) ==
    /\ pc[w] = "update"
    /\ pc'[w] = "release"
    /\ Range(outcomes'[w]) \cap (Rejections \cup {"error"}) = {}

\* C29: an accepted update with status IN_PROGRESS sets date_updated of the
\* row to the start time of the message, an accepted update with a terminal
\* status leaves date_updated as it was; and in every step every CheckIn
\* row is either unchanged or is the row of an accepted update with status,
\* duration, date_updated and timeout_at all set to the values computed from
\* the message, every other field unchanged.
C29_UpdateWritesFourFieldsTogether ==
    [][\A c \in checkins :
         \E d \in checkins' :
            /\ d.guid = c.guid
            /\ \/ d = c
               \/ \E w \in Workers :
                     /\ AcceptedUpdate(w)
                     /\ check_in[w].guid = c.guid
                     /\ d.status = msg[w].status
                     /\ d.duration =
                           IF msg[w].duration # NoneVal
                           THEN DurationMs(msg[w].duration)
                           ELSE InferredDuration(msg[w].start_time,
                                                 c.date_added)
                     /\ d.date_updated =
                           IF msg[w].status = IN_PROGRESS
                           THEN msg[w].start_time ELSE c.date_updated
                     /\ d.timeout_at =
                           get_timeout_at(
                               MonitorById(monitors, c.monitor_id).config,
                               msg[w].status, msg[w].start_time)
                     /\ d = [c EXCEPT !.status = d.status,
                                      !.duration = d.duration,
                                      !.date_updated = d.date_updated,
                                      !.timeout_at = d.timeout_at]]_vars

\* C29 witness: a terminal update arrived with a later start time than the
\* heartbeat before it: the row is finished, has a duration and keeps
\* the date_updated of the heartbeat.
C29_Witness ==
    \E w \in Workers :
        /\ pc[w] = "release"
        /\ outcomes[w] = <<"complete">>
        /\ msg[w].status = OK
        /\ msg[w].start_time = 1
        /\ \E c \in checkins :
              /\ c.guid = guid[w]
              /\ c.status = OK
              /\ c.date_updated = 0
              /\ c.duration # NoneVal

\* round(s * 1000) for a duration of d half milliseconds: the nearest whole
\* millisecond, a tie going to the even one.
RoundedMs(d) ==
    IF d % 2 = 0 THEN d \div 2
    ELSE IF (d \div 2) % 2 = 0 THEN d \div 2 ELSE (d \div 2) + 1

\* C30: a check-in stored from a message with a duration of s seconds has
\* the duration round(s * 1000) milliseconds, and the conversion of an
\* absent duration is None.
C30_DurationIsRounded ==
    /\ DurationMs(NoneVal) = NoneVal
    /\ \A w \in Workers :
          (/\ pc[w] = "release"
           /\ outcomes[w] = <<"complete">>
           /\ msg[w].duration # NoneVal)
          => \E c \in checkins :
                /\ c.guid = guid[w]
                /\ c.duration = RoundedMs(msg[w].duration)

\* The duration the update of worker w is about to store: the explicit one
\* in milliseconds, or the time from date_added of the row to the start time
\* of the message.
UpdatedDuration(w) ==
    IF msg[w].duration # NoneVal THEN DurationMs(msg[w].duration)
    ELSE msg[w].start_time - check_in[w].date_added

\* C31: when the update path is applied to an unfinished row of the
\* resolved identity and the explicit or inferred duration is negative or
\* above the ceiling, failed_duration_check is counted and no CheckIn row
\* changes: status, duration, date_updated and timeout_at of the row are as
\* before.
C31_BadDurationRejected ==
    [][\A w \in Workers :
         (/\ pc[w] = "update"
          /\ pc'[w] # "update"
          /\ ~IdentityMismatch(check_in[w], msg[w].project_id,
                               monitor_id[w], env_id[w])
          /\ check_in[w].status \notin FINISHED_VALUES
          /\ \/ UpdatedDuration(w) < 0
             \/ UpdatedDuration(w) > DurationCeiling)
         => /\ "failed_duration_check" \in Range(outcomes'[w])
            /\ checkins' = checkins]_vars

\* C31 witness: an update whose start time precedes date_added of the row
\* was rejected, and the row is still in progress with no duration.
C31_Witness ==
    \E w \in Workers :
        /\ pc[w] = "release"
        /\ "failed_duration_check" \in Range(outcomes[w])
        /\ msg[w].duration = NoneVal
        /\ \E c \in checkins :
              /\ c.guid = guid[w]
              /\ msg[w].start_time < c.date_added
              /\ c.status = IN_PROGRESS
              /\ c.duration = NoneVal

\* C32: every CheckIn row has the status IN_PROGRESS, OK or ERROR, and a
\* step that changes the status of an existing row changes it from
\* IN_PROGRESS.
C32_StatusChangesStartInProgress ==
    /\ [](\A c \in checkins : c.status \in {IN_PROGRESS, OK, ERROR})
    /\ [][\A c \in checkins, d \in checkins' :
            (d.guid = c.guid /\ d.status # c.status)
            => c.status = IN_PROGRESS]_vars

\* The monitors of the project of message m stored under slug s.
MonitorsUnder(m, s) ==
    {x \in monitors : /\ x.slug = s
                      /\ x.project_id = m.project_id
                      /\ x.organization_id = organization_id(m.project_id)}

\* C33: when a valid check-in reaches the monitor resolution and no Monitor
\* of its project is stored under the slugified or the raw slug, and it
\* carries no monitor_config or one that fails validation, the single
\* outcome failed_validation is counted and no Monitor, MonitorEnvironment
\* or CheckIn row changes, also by the return of the worker; when a Monitor
\* is stored under the raw slug only, that monitor is the one resolved, no
\* monitor is created under the slugified slug and failed_validation is not
\* counted.
C33_UnknownSlugWithoutConfig ==
    [][\A w \in Workers :
         /\ (/\ pc[w] = "locked"
             /\ pc'[w] # "locked"
             /\ CheckInIsValid(msg[w])
             /\ MonitorsUnder(msg[w], slugify(msg[w].monitor_slug)) = {})
            => IF MonitorsUnder(msg[w], msg[w].monitor_slug) # {}
               THEN /\ "failed_validation" \notin Range(outcomes'[w])
                    /\ \E x \in MonitorsUnder(msg[w], msg[w].monitor_slug) :
                          monitor_id'[w] = x.id
                    /\ \A x \in monitors' : x.slug # slugify(msg[w].monitor_slug)
               ELSE ~ConfigIsValid(msg[w].monitor_config) =>
                       /\ outcomes'[w] = <<"failed_validation">>
                       /\ pc'[w] = "release"
                       /\ <<monitors, envs, checkins>>'
                              = <<monitors, envs, checkins>>
         /\ (pc[w] = "release" /\ outcomes[w] = <<"failed_validation">>
               /\ pc'[w] # pc[w])
            => /\ pc'[w] = "idle"
               /\ <<monitors, envs, checkins>>' = <<monitors, envs, checkins>>]_vars

\* C33 witness: a check-in with the raw slug "My Job" and a monitor_config
\* that fails validation has been stored for the monitor kept under that
\* raw slug, as the second message of the behaviour, and no other monitor
\* exists.
C33_Witness ==
    \E w \in Workers :
        /\ pc[w] = "release"
        /\ outcomes[w] = <<"complete">>
        /\ msg[w].monitor_slug = "My Job"
        /\ msg[w].monitor_config = "bad"
        /\ delivered = 2
        /\ monitors = {LegacyMonitor}
        /\ \E c \in checkins : c.monitor_id = LegacyMonitor.id

\* C34: resolving the monitor of a check-in for project P leaves every
\* Monitor of another project as it is, and when P has no monitor with the
\* slug and the config validates, a Monitor of P with that slug exists
\* afterwards.
C34_OtherProjectsMonitorsKept ==
    [][\A w \in Workers :
         (/\ pc[w] = "locked"
          /\ pc'[w] # "locked"
          /\ CheckInIsValid(msg[w]))
         => /\ \A x \in monitors :
                  x.project_id # msg[w].project_id => x \in monitors'
            /\ (/\ MonitorsUnder(msg[w], slugify(msg[w].monitor_slug)) = {}
                /\ MonitorsUnder(msg[w], msg[w].monitor_slug) = {}
                /\ ConfigIsValid(msg[w].monitor_config))
                  => \E x \in monitors' :
                        /\ x.project_id = msg[w].project_id
                        /\ x.slug = slugify(msg[w].monitor_slug)]_vars

\* C35: every write to the tick register stores a minute greater than or
\* equal to the value it replaces.
C35_RegisterNeverDecreases ==
    [][register # NoneTs => register' >= register]_vars

\* C36: whenever the tick register holds minute M, _dispatch_tasks has run
\* for M, and an instance that lost the GETSET race has not left its own
\* minute in the register.
C36_RegisterMinuteWasDispatched ==
    /\ [](register # NoneTs => dispatched[register] >= 1)
    /\ [][\A i \in Instances :
            (tpc[i] = "getset" /\ tick_result'[i] = "lost_race")
            => register' # reference_ts(ts[i]) \/ register' = register]_vars

\* C37: two workers processing check-ins with the all-zero GUID that have
\* resolved by their lookup to the same check-in row (a row neither of them
\* created) are never both between the acquisition and the release of their
\* check-in lock.
C37_ZeroGuidSerialized ==
    \A w, v \in Workers :
        (/\ w # v
         /\ msg[w].check_in_id = ZeroGuid
         /\ msg[v].check_in_id = ZeroGuid
         /\ check_in[w] # NoCheckIn
         /\ check_in[v] # NoCheckIn
         /\ check_in[w].guid = check_in[v].guid
         /\ check_in[w].guid \notin {guid[w], guid[v]})
        => ~(Inside(w) /\ Inside(v))

\* C38: at any time at most one CheckIn row has a given non-zero GUID of a
\* client, whatever the interleaving of the workers and the expiries of
\* their lock leases; a step adds one row at most, and a GUID of a client
\* that no row had appears only in the step of a worker on the create path
\* with that GUID.
C38_OneRowPerGuid ==
    /\ [](\A g \in ClientGuids :
            Cardinality({c \in checkins : c.guid = g}) <= 1)
    /\ [][/\ Cardinality(checkins') <= Cardinality(checkins) + 1
          /\ \A d \in checkins' :
                (d.guid \in ClientGuids /\ \A c \in checkins : c.guid # d.guid)
                   => \E w \in Workers :
                         pc[w] = "create" /\ guid[w] = d.guid]_vars

\* C38 witness: two workers went to the create path for one GUID (neither
\* holds the lock of a row), the first after the lease of its lock had run
\* out; the first has created the row and finished, the second is on the
\* update path with that row, and no second row with the GUID exists.
C38_Witness ==
    \E w, v \in Workers :
        /\ w # v
        /\ guid[w] = guid[v]
        /\ guid[w] \in ClientGuids
        /\ lease_lost[w]
        /\ pc[w] = "release"
        /\ outcomes[w] = <<"complete">>
        /\ pc[v] = "update"
        /\ rowlock[guid[v]] = 0
        /\ check_in[v] \in checkins
        /\ Cardinality({c \in checkins : c.guid = guid[w]}) = 1

\* C39: the first-monitor-created signal is invoked only in a step that
\* creates a new Monitor row: whenever the count of its invocations grows,
\* the monitors after the step hold a row whose id no monitor had before.
C39_SignalOnlyOnCreation ==
    [][signals'.first_monitor # signals.first_monitor
         => \E x \in monitors' : \A y \in monitors : y.id # x.id]_vars

\* The fields of a CheckIn row that the update path does not write.
CreationFields(c) ==
    [guid |-> c.guid, project_id |-> c.project_id,
     monitor_id |-> c.monitor_id,
     monitor_environment_id |-> c.monitor_environment_id,
     date_added |-> c.date_added, expected_time |-> c.expected_time,
     monitor_config |-> c.monitor_config, trace_id |-> c.trace_id]

====
